---------------------------- MODULE Spec2Model ----------------------------
(***************************************************************************)
(* A model of loopy's code-generation backend (loopy/codegen/__init__.py): *)
(*   - generate_code_v2, the translation-unit orchestrator, with the       *)
(*     write-once code_gen_cache shared by concurrent runs;                *)
(*   - CodeGenerationState with fix / try_vectorized / unvectorize;        *)
(*   - diverge_callee_entrypoints.                                         *)
(***************************************************************************)
EXTENDS Naturals, Integers, Sequences, FiniteSets, TLC

(***************************************************************************)
(* Bounds of the model.                                                    *)
(***************************************************************************)
NumRuns == 2
NumNames == 2
MaxLength == 3
MaxFragments == 2

(***************************************************************************)
(* KernelState (loopy.kernel.KernelState): INITIAL < PREPROCESSED <        *)
(* LINEARIZED.                                                             *)
(***************************************************************************)
INITIAL == 0
PREPROCESSED == 1
LINEARIZED == 2

None == "None"

(***************************************************************************)
(* Python dicts keep insertion order; a dict is a sequence of <<key,       *)
(* value>> items with distinct keys.                                       *)
(***************************************************************************)
DictKeys(d) == {d[i][1] : i \in DOMAIN d}

DictItems(d) == {d[i] : i \in DOMAIN d}

DictGet(d, k) == d[CHOOSE i \in DOMAIN d : d[i][1] = k][2]

DictSet(d, k, v) ==
    IF k \in DictKeys(d)
    THEN [i \in DOMAIN d |-> IF d[i][1] = k THEN <<k, v>> ELSE d[i]]
    ELSE Append(d, <<k, v>>)

DictValues(d) == [i \in DOMAIN d |-> d[i][2]]

(***************************************************************************)
(* Callable ids are strings.  An id is modelled as a non-empty sequence of *)
(* naturals: <<n>> is the n-th one-letter name, and id \o <<k>> is the     *)
(* string id + "_" + str(k) that the unique-name generator makes.  The     *)
(* order of sorted() on such strings is the lexicographic order below.     *)
(***************************************************************************)
IdLess(x, y) ==
    \E i \in 1..(Len(x) + 1) :
        /\ i <= Len(y)
        /\ \A j \in 1..(i - 1) : x[j] = y[j]
        /\ (i = Len(x) + 1 \/ x[i] < y[i])

RECURSIVE descending(_)
descending(S) ==
    IF S = {} THEN <<>>
    ELSE LET m == CHOOSE x \in S : \A y \in S : x = y \/ IdLess(y, x)
         IN  <<m>> \o descending(S \ {m})

RECURSIVE sorted(_)
sorted(S) ==
    IF S = {} THEN <<>>
    ELSE LET m == CHOOSE x \in S : \A y \in S : x = y \/ IdLess(x, y)
         IN  <<m>> \o sorted(S \ {m})


(***************************************************************************)
(* Kernels, callables and translation units.                               *)
(*   kernel:   name, state (KernelState), calls (the ids its resolved      *)
(*             call sites reference), ndev (how many device programs its   *)
(*             emission yields), preambles (what its emission discovers)   *)
(*   callable: iskernel (CallableKernel or another InKernelCallable),      *)
(*             subkernel, cpre (what its generate_preambles yields)        *)
(*   t_unit:   callables_table (a dict id -> callable), entrypoints; a     *)
(*             bare LoopKernel passed instead of a unit has bare = TRUE    *)
(*             and carries the kernel.                                     *)
(***************************************************************************)
NoKernel ==
    [name |-> <<>>, state |-> LINEARIZED, calls |-> {}, ndev |-> 0,
     preambles |-> <<>>]

Kernel(name, state, callees, ndev, preambles) ==
    [name |-> name, state |-> state, calls |-> callees, ndev |-> ndev,
     preambles |-> preambles]

CallableKernel(knl, cpre) ==
    [iskernel |-> TRUE, subkernel |-> knl, cpre |-> cpre]

ScalarCallable(cpre) ==
    [iskernel |-> FALSE, subkernel |-> NoKernel, cpre |-> cpre]

TranslationUnit(callables_table, entrypoints) ==
    [bare |-> FALSE, kernel |-> NoKernel,
     callables_table |-> callables_table, entrypoints |-> entrypoints]

BareKernel(knl) ==
    [bare |-> TRUE, kernel |-> knl, callables_table |-> <<>>,
     entrypoints |-> {}]

(* The persistent-dict key of a unit: dict equality ignores item order.    *)
Key(u) ==
    [bare |-> u.bare, kernel |-> u.kernel,
     callables_table |-> DictItems(u.callables_table),
     entrypoints |-> u.entrypoints]

Max(a, b) == IF a >= b THEN a ELSE b

KernelIds(table) == {k \in DictKeys(table) : DictGet(table, k).iskernel}

(* TranslationUnit.state: the least state of its kernels.                  *)
StateUnknown(u) == INITIAL

UnitState(u) ==
    IF \E k \in KernelIds(u.callables_table) :
           DictGet(u.callables_table, k).subkernel.state = INITIAL
    THEN INITIAL
    ELSE IF \E k \in KernelIds(u.callables_table) :
           DictGet(u.callables_table, k).subkernel.state = PREPROCESSED
    THEN PREPROCESSED
    ELSE LINEARIZED

SetKernelStates(u, least) ==
    LET tbl == u.callables_table
        new(item) ==
            IF item[2].iskernel
            THEN <<item[1],
                   [item[2] EXCEPT !.subkernel.state = Max(@, least)]>>
            ELSE item
    IN  [u EXCEPT !.callables_table = [i \in DOMAIN tbl |-> new(tbl[i])]]

make_program(u) ==
    TranslationUnit(<<<<u.kernel.name, CallableKernel(u.kernel, <<>>)>>>>,
                    {u.kernel.name})

preprocess_program(u) == SetKernelStates(u, PREPROCESSED)

infer_unknown_types(u) == u

linearize(u) == SetKernelStates(u, LINEARIZED)

(***************************************************************************)
(* diverge_callee_entrypoints                                              *)
(***************************************************************************)
CalleesOf(table, id) ==
    IF id \in KernelIds(table) THEN DictGet(table, id).subkernel.calls ELSE {}

RECURSIVE ReachClosure(_, _)
ReachClosure(table, S) ==
    LET T == S \cup UNION {CalleesOf(table, c) : c \in S}
    IN  IF T = S THEN S ELSE ReachClosure(table, T)

get_reachable_resolved_callable_ids(table, entrypoints) ==
    ReachClosure(table, UNION {CalleesOf(table, e) : e \in entrypoints})

(* make_callable_name_generator(table)(based_on=id): id itself is taken,   *)
(* so the first of id_0, id_1, ... that is no key of the table.            *)
vng(table, based_on) ==
    LET n == Cardinality(DictKeys(table))
        k == CHOOSE k \in 0..n :
                 /\ (based_on \o <<k>>) \notin DictKeys(table)
                 /\ \A j \in 0..(k - 1) :
                        (based_on \o <<j>>) \in DictKeys(table)
    IN  based_on \o <<k>>

NothingToRename(t_unit) == {}

ToRename(t_unit) ==
    get_reachable_resolved_callable_ids(t_unit.callables_table,
                                        t_unit.entrypoints)
        \cap t_unit.entrypoints

todo_renames(t_unit) ==
    [id \in ToRename(t_unit) |-> vng(t_unit.callables_table, id)]

RenameEvery(renames, id) ==
    IF id \in DOMAIN renames THEN renames[id] ELSE id \o <<0>>

ApplyRenames(renames, id) ==
    IF id \in DOMAIN renames THEN renames[id] ELSE id

rename_resolved_functions_in_a_single_kernel(knl, renames) ==
    [knl EXCEPT !.calls = {ApplyRenames(renames, c) : c \in @}]

RECURSIVE new_callables(_, _, _)
new_callables(items, renames, acc) ==
    IF items = <<>> THEN acc
    ELSE LET name == ApplyRenames(renames, Head(items)[1])
             clbl == Head(items)[2]
             new  == IF clbl.iskernel
                     THEN [clbl EXCEPT !.subkernel =
                              [rename_resolved_functions_in_a_single_kernel(
                                   @, renames) EXCEPT !.name = name]]
                     ELSE clbl
         IN  new_callables(Tail(items), renames, DictSet(acc, name, new))

diverge_callee_entrypoints(t_unit) ==
    [t_unit EXCEPT !.callables_table =
        new_callables(t_unit.callables_table, todo_renames(t_unit), <<>>)]


(***************************************************************************)
(* generate_code_v2: the stages that follow the cache retrieval.           *)
(*                                                                         *)
(* The pipeline touches no shared state, so it is computed as one value:   *)
(* P carries the unit being transformed, the collections of lines 592-595, *)
(* the log of the stages that ran and the error that ended the run, if     *)
(* any.  fail names the external stage (or the driver call) that raises in *)
(* this run.                                                               *)
(***************************************************************************)
Event(stage, id) == [stage |-> stage, id |-> id]

NoFail == Event("none", <<>>)

StartP(u) ==
    [t_unit |-> u, stages |-> <<>>, error |-> None,
     host_programs |-> <<>>, device_programs |-> <<>>,
     device_preambles |-> <<>>, callee_fdecls |-> <<>>]

Stage(P, name, cond, new_unit, fail) ==
    IF P.error # None \/ ~cond THEN P
    ELSE IF fail = Event(name, <<>>)
    THEN [P EXCEPT !.stages = Append(@, Event(name, <<>>)), !.error = name]
    ELSE [P EXCEPT !.stages = Append(@, Event(name, <<>>)),
                   !.t_unit = new_unit]

(* AST nodes of the generated programs.                                    *)
Node(kind, name, part, contents) ==
    [kind |-> kind, name |-> name, part |-> part, contents |-> contents]

Program(name, ast) == [name |-> name, ast |-> ast]

fdecl(prg) == Node("fdecl", prg.name, 0, <<>>)

Collection(contents) == Node("Collection", <<>>, 0, contents)

(* What generate_code_for_a_single_kernel hands back to generate_code_v2:  *)
(* the host program, kernel.ndev device programs and the preambles.        *)
SingleKernelResult(kernel, is_entrypoint) ==
    [host_program |-> Program(kernel.name, Node("host", kernel.name, 0, <<>>)),
     device_programs |->
        [j \in 1..kernel.ndev |->
            Program(kernel.name, Node("body", kernel.name, j, <<>>))],
     device_preambles |-> kernel.preambles]

AssertionOff(is_entrypoint, cgr) == FALSE

(* Lines 605-608: the assert on the device programs of a non-entrypoint.   *)
AssertionFails(is_entrypoint, cgr) ==
    ~is_entrypoint /\ Len(cgr.device_programs) # 1

(* Lines 599-612: one iteration per kernel id, in sorted order.            *)
RECURSIVE CollectPrograms(_, _, _)
CollectPrograms(P, func_ids, fail) ==
    IF P.error # None \/ func_ids = <<>> THEN P
    ELSE
      LET func_id == Head(func_ids)
          ev      == Event("generate_code_for_a_single_kernel", func_id)
          kernel  == DictGet(P.t_unit.callables_table, func_id).subkernel
          is_ep   == func_id \in P.t_unit.entrypoints
          cgr     == SingleKernelResult(kernel, is_ep)
          called  == [P EXCEPT !.stages = Append(@, ev)]
      IN  IF kernel.state # LINEARIZED
          THEN [called EXCEPT !.error = "LoopyError"]
          ELSE IF fail = ev
          THEN [called EXCEPT !.error = "generate_code_for_a_single_kernel"]
          ELSE IF AssertionFails(is_ep, cgr)
          THEN [called EXCEPT !.error = "AssertionError"]
          ELSE CollectPrograms(
                 [called EXCEPT
                    !.host_programs =
                        IF is_ep THEN DictSet(@, func_id, cgr.host_program)
                        ELSE @,
                    !.callee_fdecls =
                        IF is_ep THEN @
                        ELSE Append(@, fdecl(cgr.device_programs[1])),
                    !.device_programs = @ \o cgr.device_programs,
                    !.device_preambles = @ \o cgr.device_preambles],
                 Tail(func_ids), fail)

RECURSIVE Concat(_)
Concat(ss) == IF ss = <<>> THEN <<>> ELSE Head(ss) \o Concat(Tail(ss))

(* Lines 618-619: the callables' own preambles, in table order.            *)
CollectPreambles(P) ==
    IF P.error # None THEN P
    ELSE LET vals == DictValues(P.t_unit.callables_table)
         IN  [P EXCEPT
                !.stages = Append(@, Event("generate_preambles", <<>>)),
                !.device_preambles =
                    @ \o Concat([i \in DOMAIN vals |-> vals[i].cpre])]

SpliceIntoEvery(P) ==
    IF P.error # None THEN P
    ELSE [P EXCEPT
            !.stages = Append(@, Event("splice", <<>>)),
            !.device_programs =
                [k \in DOMAIN @ |->
                    [@[k] EXCEPT !.ast =
                        Collection(Append(P.callee_fdecls, @))]]]

(* Lines 624-627: the forward declarations go in front of the first device *)
(* program; device_programs[0] of an empty list raises IndexError.         *)
SpliceFdecls(P) ==
    IF P.error # None THEN P
    ELSE IF P.device_programs = <<>>
    THEN [P EXCEPT !.stages = Append(@, Event("splice", <<>>)),
                   !.error = "IndexError"]
    ELSE [P EXCEPT
            !.stages = Append(@, Event("splice", <<>>)),
            !.device_programs =
                <<[@[1] EXCEPT !.ast =
                      Collection(Append(P.callee_fdecls, @))]>>
                \o Tail(@)]

TranslationUnitCodeGenerationResult(hps, dps, dpre) ==
    [host_programs |-> hps, device_programs |-> dps,
     host_preambles |-> <<>>, device_preambles |-> dpre]

DriverBeforeChecks(u, fail) ==
    LET P1 == Stage(StartP(u), "make_program", u.bare, make_program(u), fail)
        P2 == Stage(P1, "preprocess_program",
                    UnitState(P1.t_unit) < PREPROCESSED,
                    preprocess_program(P1.t_unit), fail)
        P3 == Stage(P2, "infer_unknown_types", TRUE,
                    infer_unknown_types(P2.t_unit), fail)
        P4 == Stage(P3, "linearize", UnitState(P3.t_unit) < LINEARIZED,
                    linearize(P3.t_unit), fail)
        P5 == CollectPrograms(
                  P4, sorted(KernelIds(P4.t_unit.callables_table)), fail)
        P6 == Stage(P5, "diverge_callee_entrypoints", TRUE,
                    diverge_callee_entrypoints(P5.t_unit), fail)
        P7 == Stage(P6, "pre_codegen_checks", TRUE, P6.t_unit, fail)
        P8 == CollectPreambles(P7)
    IN  SpliceFdecls(P8)

Pipeline(u, fail) ==
    LET P1 == Stage(StartP(u), "make_program", u.bare, make_program(u), fail)
        P2 == Stage(P1, "preprocess_program",
                    UnitState(P1.t_unit) < PREPROCESSED,
                    preprocess_program(P1.t_unit), fail)
        P3 == Stage(P2, "infer_unknown_types", TRUE,
                    infer_unknown_types(P2.t_unit), fail)
        P4 == Stage(P3, "linearize", UnitState(P3.t_unit) < LINEARIZED,
                    linearize(P3.t_unit), fail)
        P5 == Stage(P4, "diverge_callee_entrypoints", TRUE,
                    diverge_callee_entrypoints(P4.t_unit), fail)
        P6 == Stage(P5, "pre_codegen_checks", TRUE, P5.t_unit, fail)
        P7 == CollectPrograms(
                  P6, sorted(KernelIds(P6.t_unit.callables_table)), fail)
        P8 == CollectPreambles(P7)
    IN  SpliceFdecls(P8)

PipelineResult(P) ==
    TranslationUnitCodeGenerationResult(
        P.host_programs, P.device_programs, P.device_preambles)

(* The stages and driver calls of a run on u that can be made to raise.    *)
FailChoices(u) ==
    LET stages == Pipeline(u, NoFail).stages IN
    {NoFail} \cup {ev \in {stages[i] : i \in DOMAIN stages} :
                      ev.stage \in {"preprocess_program",
                                    "infer_unknown_types", "linearize",
                                    "pre_codegen_checks",
                                    "generate_code_for_a_single_kernel"}}

(***************************************************************************)
(* Rendering (TranslationUnitCodeGenerationResult.all_code).  Code text is *)
(* a sequence of pieces: preamble texts, then the programs' ASTs.          *)
(***************************************************************************)
(* process_preambles: one entry per distinct text (the first found),       *)
(* ordered by priority and, for equal priority, by discovery.              *)
KeepAll(pre, seen) == pre

RECURSIVE DedupByText(_, _)
DedupByText(pre, seen) ==
    IF pre = <<>> THEN <<>>
    ELSE IF Head(pre)[2] \in seen THEN DedupByText(Tail(pre), seen)
    ELSE <<Head(pre)>> \o DedupByText(Tail(pre), seen \cup {Head(pre)[2]})

RECURSIVE InsertByPriority(_, _)
InsertByPriority(sortedpre, p) ==
    IF sortedpre = <<>> THEN <<p>>
    ELSE IF p[1] < Head(sortedpre)[1] THEN <<p>> \o sortedpre
    ELSE <<Head(sortedpre)>> \o InsertByPriority(Tail(sortedpre), p)

RECURSIVE SortByPriority(_)
SortByPriority(pre) ==
    IF pre = <<>> THEN <<>>
    ELSE InsertByPriority(SortByPriority(SubSeq(pre, 1, Len(pre) - 1)),
                          pre[Len(pre)])

process_preambles(pre) ==
    LET kept == SortByPriority(DedupByText(pre, {}))
    IN  [i \in DOMAIN kept |-> kept[i][2]]

(* str(ast): the text of an AST.                                           *)
str(ast) == ToString(ast)

(* Lines 505-512 and 514-521.                                              *)
host_code(cgr) ==
    process_preambles(cgr.host_preambles)
    \o [i \in DOMAIN cgr.host_programs |-> str(cgr.host_programs[i][2].ast)]

device_code(cgr) ==
    process_preambles(cgr.device_preambles)
    \o [i \in DOMAIN cgr.device_programs |->
            str(cgr.device_programs[i].ast)]

all_code_host_first(cgr) ==
    process_preambles(cgr.host_preambles \o cgr.device_preambles)
    \o [i \in DOMAIN cgr.host_programs |-> str(cgr.host_programs[i][2].ast)]
    \o [i \in DOMAIN cgr.device_programs |->
            str(cgr.device_programs[i].ast)]

(* Lines 523-537.                                                          *)
all_code(cgr) ==
    process_preambles(cgr.host_preambles \o cgr.device_preambles)
    \o [i \in DOMAIN cgr.device_programs |->
            str(cgr.device_programs[i].ast)]
    \o [i \in DOMAIN cgr.host_programs |-> str(cgr.host_programs[i][2].ast)]

never_multiple(programs) == FALSE

(* Lines 659 and 662: more than one program.                               *)
multiple(programs) == Len(programs) > 1

(* GeneratedProgram.body_ast.                                              *)
body_ast(prg) == Node("body_ast", prg.name, 0, <<>>)

(* Lines 646-666: what generate_code does with the result of               *)
(* generate_code_v2.                                                       *)
generate_code(codegen_result) ==
    IF multiple(codegen_result.device_programs)
       \/ multiple(DictValues(codegen_result.host_programs))
    THEN [raised |-> "LoopyError", value |-> <<>>]
    ELSE [raised |-> None, value |-> <<device_code(codegen_result), None>>]

(* Lines 673-682.                                                          *)
generate_body(codegen_result) ==
    IF Len(codegen_result.device_programs) # 1
    THEN [raised |-> "LoopyError", value |-> <<>>]
    ELSE [raised |-> None,
          value |-> <<str(body_ast(codegen_result.device_programs[1]))>>]

(***************************************************************************)
(* code_gen_cache: a WriteOncePersistentDict, a function from the keys it  *)
(* holds to their values.                                                  *)
(***************************************************************************)
store(cache, key, value) ==
    [k \in DOMAIN cache \cup {key} |-> IF k = key THEN value ELSE cache[k]]

store_if_not_present(cache, key, value) ==
    IF key \in DOMAIN cache THEN cache ELSE store(cache, key, value)


(***************************************************************************)
(* The translation units the runs of generate_code_v2 are called on.       *)
(***************************************************************************)
Preamble(tag, text) == <<tag, text>>

UnitAB(order) ==
    LET a == CallableKernel(
                 Kernel(<<1>>, INITIAL, {<<2>>}, 1,
                        <<Preamble(1, "decl_a")>>),
                 <<Preamble(0, "pre_a")>>)
        b == CallableKernel(
                 Kernel(<<2>>, INITIAL, {}, 1, <<>>),
                 <<Preamble(0, "pre_b")>>)
    IN  TranslationUnit(
            IF order = 1 THEN <<<< <<1>>, a >>, << <<2>>, b >>>>
            ELSE <<<< <<2>>, b >>, << <<1>>, a >>>>,
            {<<1>>})

UnitRec ==
    TranslationUnit(
        << << <<1>>, CallableKernel(
                        Kernel(<<1>>, LINEARIZED, {<<2>>, <<3>>}, 1, <<>>),
                        <<>>) >>,
           << <<2>>, CallableKernel(
                        Kernel(<<2>>, LINEARIZED, {<<1>>}, 1, <<>>),
                        <<>>) >>,
           << <<3>>, ScalarCallable(<<Preamble(0, "pre_c")>>) >> >>,
        {<<1>>})

UnitBare == BareKernel(Kernel(<<1>>, PREPROCESSED, {}, 2, <<>>))

UnitBad ==
    TranslationUnit(
        << << <<1>>, CallableKernel(
                        Kernel(<<1>>, LINEARIZED, {<<2>>}, 1, <<>>),
                        <<>>) >>,
           << <<2>>, CallableKernel(
                        Kernel(<<2>>, LINEARIZED, {}, 2, <<>>), <<>>) >> >>,
        {<<1>>})

(* Callables {b, a, c}, in this order in the table; a calls b and c.       *)
UnitBAC ==
    TranslationUnit(
        << << <<2>>, CallableKernel(
                        Kernel(<<2>>, LINEARIZED, {}, 1, <<>>), <<>>) >>,
           << <<1>>, CallableKernel(
                        Kernel(<<1>>, LINEARIZED, {<<2>>, <<3>>}, 1, <<>>),
                        <<>>) >>,
           << <<3>>, CallableKernel(
                        Kernel(<<3>>, LINEARIZED, {}, 1, <<>>), <<>>) >> >>,
        {<<1>>})

(* Two entrypoints, one of which calls the other.                          *)
UnitTwoEntries ==
    TranslationUnit(
        << << <<1>>, CallableKernel(
                        Kernel(<<1>>, LINEARIZED, {<<2>>}, 1, <<>>),
                        <<>>) >>,
           << <<2>>, CallableKernel(
                        Kernel(<<2>>, LINEARIZED, {}, 1, <<>>), <<>>) >> >>,
        {<<1>>, <<2>>})

(* The units concurrent runs are called on, and those of a single caller.  *)
SharedUnitSeq == <<UnitAB(1), UnitAB(2), UnitRec>>

SampleUnitSeq ==
    SharedUnitSeq \o <<UnitBare, UnitBad, UnitBAC, UnitTwoEntries>>

SharedUnits == {SharedUnitSeq[i] : i \in DOMAIN SharedUnitSeq}

SampleUnits == {SampleUnitSeq[i] : i \in DOMAIN SampleUnitSeq}

StoreUnderPipelineUnit(input, P) == Key(P.t_unit)

(* Line 641: the entry is stored under the unit that was passed in.        *)
StoreKey(input, P) == Key(input)

(* The outcomes of the pipeline on a unit, one per choice of the stage     *)
(* that raises; Outcomes[i] are those of the i-th sample unit.             *)
PipelinesOf(u) == {Pipeline(u, fail) : fail \in FailChoices(u)}

Outcomes == [i \in DOMAIN SampleUnitSeq |-> PipelinesOf(SampleUnitSeq[i])]

(***************************************************************************)
(* CodeGenerationState and the vectorization engine.                       *)
(*                                                                         *)
(* implemented_domain is an isl set: the sequence of its named set         *)
(* dimensions and the set of its constraints.  A constraint is             *)
(* [iname, rel, rhs]; an Aff on the parameter space with no parameters is  *)
(* a constant.  vectorization_info is <<>> for None and <<[iname,          *)
(* length]>> otherwise.                                                    *)
(***************************************************************************)
VectorizationInfo(iname, length) == [iname |-> iname, length |-> length]

Aff(c) == [const |-> c]

pw_aff_next(aff) == aff.const + 1

pw_aff_to_expr(aff) == aff.const

iname_rel_aff(iname, rel, aff) ==
    [iname |-> iname, rel |-> rel, rhs |-> aff.const]

NoDimNames(dom) == {}

DimNames(dom) == {dom.dims[k] : k \in DOMAIN dom.dims}

CollectorFields == {"seen_dtypes", "seen_functions", "seen_atomic_dtypes"}

copy_with_other_sets(self, kwargs) ==
    [f \in DOMAIN self |->
        IF f \in DOMAIN kwargs THEN kwargs[f]
        ELSE IF f \in CollectorFields THEN (self[f] % 3) + 1
        ELSE self[f]]

(* Lines 188-189: dataclasses.replace builds a new object from the fields  *)
(* of self, the fields named in kwargs replaced; a field that holds a      *)
(* reference (the collector sets) keeps holding the same reference.        *)
copy(self, kwargs) ==
    [f \in DOMAIN self |->
        IF f \in DOMAIN kwargs THEN kwargs[f] ELSE self[f]]

MapSetAlone(map, name, value) == [n \in {name} |-> value]

(* constantdict.set and constantdict.update.                               *)
MapSet(map, name, value) ==
    [n \in DOMAIN map \cup {name} |-> IF n = name THEN value ELSE map[n]]

MapUpdate(map, assignments) ==
    [n \in DOMAIN map \cup DOMAIN assignments |->
        IF n \in DOMAIN assignments THEN assignments[n] ELSE map[n]]

(* Lines 191-194.                                                          *)
copy_and_assign(self, name, value) ==
    copy(self, [var_subst_map |-> MapSet(self.var_subst_map, name, value)])

(* Lines 196-199.                                                          *)
copy_and_assign_many(self, assignments) ==
    copy(self,
         [var_subst_map |-> MapUpdate(self.var_subst_map, assignments)])

(* isl.align_two followed by the intersection: the set dimensions of both, *)
(* the constraints of both.                                                *)
IntersectDomains(dom, other) ==
    [dims |-> dom.dims \o SelectSeq(other.dims,
                                    LAMBDA n : n \notin DimNames(dom)),
     cns |-> dom.cns \cup other.cns]

intersect_replacing(self, other) == copy(self, [implemented_domain |-> other])

(* Lines 207-209.                                                          *)
intersect(self, other) ==
    copy(self, [implemented_domain |->
                    IntersectDomains(self.implemented_domain, other)])

(* Lines 211-233.                                                          *)
fix(self, iname, aff) ==
    LET dom == self.implemented_domain
        new_impl_domain ==
            IF iname \notin DimNames(dom)
            THEN [dom EXCEPT !.dims = Append(@, iname)]
            ELSE dom
        cns == iname_rel_aff(iname, "==", aff)
        expr == pw_aff_to_expr(aff)
    IN  copy(copy_and_assign(self, iname, expr),
             [implemented_domain |->
                 [new_impl_domain EXCEPT !.cns = @ \cup {cns}]])

LaneContextOffByOne(self, i) ==
    fix(copy(self, [vectorization_info |-> <<>>]),
        self.vectorization_info[1].iname, Aff(i + 1))

(* Lines 270-275: the context of lane i.                                   *)
LaneContext(self, i) ==
    fix(copy(self, [vectorization_info |-> <<>>]),
        self.vectorization_info[1].iname, Aff(i))

(* What one call of the emit function does: raise UnvectorizableError,     *)
(* return None, one result, or a list of n results.                        *)
Outcome(kind, n) == [kind |-> kind, n |-> n]

FuncOutcomes ==
    {Outcome("raise", 0), Outcome("none", 0), Outcome("single", 1)}
    \cup {Outcome("list", n) : n \in 0..MaxFragments}

(* The code a call emits in a context: the body, with the context's        *)
(* substitutions and vectorization applied.                                *)
Fragment(ctx, part) ==
    [part |-> part, subst |-> ctx.var_subst_map,
     vec |-> ctx.vectorization_info]

Generated(ctx, o) == [k \in 1..o.n |-> Fragment(ctx, k)]

CollectInFront(results, generated, o) ==
    IF o.kind = "none" THEN results ELSE generated \o results

(* Lines 278-283.                                                          *)
Collect(results, generated, o) ==
    IF o.kind = "list" THEN results \o generated
    ELSE IF o.kind = "none" THEN results
    ELSE Append(results, generated[1])

merge_codegen_results(self, results) == [asts |-> results]

CatchesNothing(self) == FALSE

LaneRangeInclusive(vinf) == 0..vinf.length

(* Line 272: range(vinf.length).                                           *)
LaneRange(vinf) == 0..(vinf.length - 1)

(* Lines 250-255: only a vectorizing context has the try/except.           *)
Catches(self) == self.vectorization_info # <<>>

(***************************************************************************)
(* State.                                                                  *)
(***************************************************************************)
VARIABLES
    CACHING_ENABLED,      \* loopy.CACHING_ENABLED
    ABORT_ON_CACHE_MISS,  \* loopy.ABORT_ON_CACHE_MISS
    code_gen_cache,       \* key -> stored result
    pc,                   \* per run: position in generate_code_v2
    input_t_unit,         \* per run: <<the unit passed in>>, <<>> when idle
    work,                 \* per run: <<the pipeline's outcome>> once it ran
    result,               \* per run: <<the value returned>>
    error,                \* per run: the exception that ended the run
    wrote,                \* per run: whether its store changed the cache
    materialized,         \* key -> the values stores put under it, in order
    last_code,            \* sequential runs: key -> all_code() last returned
    (* the vectorization engine *)
    cgs,                  \* the receiver context of the call
    entry,                \* the method called on it
    v_pc,                 \* position in try_vectorized / unvectorize
    lane,                 \* unvectorize: the loop index i
    calls,                \* the contexts the emit function was called with
    outcomes,             \* what each of these calls did
    vec_result,           \* unvectorize: the list result
    warnings,             \* the warnings issued
    v_what,               \* the label try_vectorized was called with
    v_ret,                \* <<the value returned>>
    (* diverge_callee_entrypoints, statement by statement *)
    d_pc,                 \* position in diverge_callee_entrypoints
    d_unit,               \* the unit passed in
    d_todo,               \* todo_renames
    d_rest,               \* the items the second loop has yet to visit
    d_new,                \* new_callables
    d_ret,                \* <<the unit returned>>
    (* generate_code_for_a_single_kernel, statement by statement *)
    k_pc,                 \* position in the driver
    k_kernel,             \* the kernel passed in
    k_heap,               \* the set objects created: reference -> content
    k_ctxs,               \* the contexts built, each with how it was derived
    k_added,              \* what was added to a collector set, and through
                          \* which context (0: the driver's local variable)
    k_log,                \* the calls made so far
    k_info,               \* <<the PreambleInfo>> once built
    k_gens,               \* the preamble generators called, in order
    k_err,                \* the exception raised
    (* the callers of a result: its rendering methods, generate_code and   *)
    (* generate_body                                                       *)
    r_pc,                 \* the call made on the result
    r_cgr,                \* the TranslationUnitCodeGenerationResult
    r_out,                \* <<the value returned>>
    r_err,                \* the exception raised
    (* the construction of a TemporaryVariable *)
    t_pc,                 \* before or after __init__
    t_args,               \* the arguments of __init__
    t_obj,                \* <<the object constructed>>
    t_err,                \* the exception raised
    (* parse_tag and the string form of iname tags *)
    p_pc,                 \* the call made
    p_arg,                \* the argument
    p_str,                \* <<str(tag)>> once taken
    p_out                 \* what parse_tag returned or raised

orch_vars ==
    <<CACHING_ENABLED, ABORT_ON_CACHE_MISS, code_gen_cache, pc, input_t_unit,
      work, result, error, wrote, materialized, last_code>>

vec_vars ==
    <<cgs, entry, v_pc, lane, calls, outcomes, vec_result, warnings, v_what,
      v_ret>>

div_vars == <<d_pc, d_unit, d_todo, d_rest, d_new, d_ret>>

drv_vars ==
    <<k_pc, k_kernel, k_heap, k_ctxs, k_added, k_log, k_info, k_gens,
      k_err>>

rnd_vars == <<r_pc, r_cgr, r_out, r_err>>

tmp_vars == <<t_pc, t_args, t_obj, t_err>>

tag_vars == <<p_pc, p_arg, p_str, p_out>>

vars ==
    <<orch_vars, vec_vars, div_vars, drv_vars, rnd_vars, tmp_vars, tag_vars>>

(* What the actions of one component leave alone.                          *)
outside_orch ==
    <<vec_vars, div_vars, drv_vars, rnd_vars, tmp_vars, tag_vars>>

outside_vec ==
    <<orch_vars, div_vars, drv_vars, rnd_vars, tmp_vars, tag_vars>>

outside_div ==
    <<orch_vars, vec_vars, drv_vars, rnd_vars, tmp_vars, tag_vars>>

outside_drv ==
    <<orch_vars, vec_vars, div_vars, rnd_vars, tmp_vars, tag_vars>>

outside_tmp ==
    <<orch_vars, vec_vars, div_vars, drv_vars, rnd_vars, tag_vars>>

outside_tag ==
    <<orch_vars, vec_vars, div_vars, drv_vars, rnd_vars, tmp_vars>>

outside_rnd ==
    <<orch_vars, vec_vars, div_vars, drv_vars, tmp_vars, tag_vars>>

Runs == 1..NumRuns

EmptyMap == [k \in {} |-> k]

SampleKeys == {Key(u) : u \in SampleUnits}

SharedKeys == {Key(u) : u \in SharedUnits}

(* The results complete runs produce for the units of a key.               *)
CompleteResults(key) ==
    {PipelineResult(P) :
        P \in {Q \in UNION {Outcomes[i] : i \in {j \in DOMAIN SampleUnitSeq :
                                         Key(SampleUnitSeq[j]) = key}} :
                  Q.error = None}}

(* The persistent cache may hold entries of earlier sessions.              *)
PersistedCaches(keys) ==
    UNION {{c \in [K -> UNION {CompleteResults(k) : k \in K}] :
               \A k \in K : c[k] \in CompleteResults(k)} :
           K \in SUBSET keys}

OrchInit(keys) ==
    /\ CACHING_ENABLED \in BOOLEAN
    /\ ABORT_ON_CACHE_MISS \in BOOLEAN
    /\ code_gen_cache \in PersistedCaches(keys)
    /\ pc = [r \in Runs |-> "idle"]
    /\ input_t_unit = [r \in Runs |-> <<>>]
    /\ work = [r \in Runs |-> <<>>]
    /\ result = [r \in Runs |-> <<>>]
    /\ error = [r \in Runs |-> None]
    /\ wrote = [r \in Runs |-> FALSE]
    /\ materialized = [k \in SampleKeys |-> <<>>]
    /\ last_code = EmptyMap

NeverHit(key) == FALSE

HitWhateverTheSetting(key) == key \in DOMAIN code_gen_cache

(* Lines 548-554: with caching enabled, an entry under the key is a hit.   *)
cache_hit(key) == CACHING_ENABLED /\ key \in DOMAIN code_gen_cache

NeverAbort == FALSE

(* Lines 555-559: with caching enabled, a miss in strict mode re-raises.   *)
abort_on_miss == CACHING_ENABLED /\ ABORT_ON_CACHE_MISS

StoreAnyway(P) == "store"

(* An exception of a stage leaves generate_code_v2 at once.                *)
AfterPipeline(P) == IF P.error = None THEN "store" ELSE "failed"

(* generate_code_v2(u) is called and runs up to its store: the cache       *)
(* retrieval of lines 548-559, which is the run's one read of the shared   *)
(* cache, and on a miss the pipeline of lines 563-627, which is local.     *)
Begin(r, i) ==
    /\ pc[r] = "idle"
    /\ LET u == SampleUnitSeq[i] IN
       /\ input_t_unit' = [input_t_unit EXCEPT ![r] = <<u>>]
       /\ IF cache_hit(Key(u))
          THEN /\ result' = [result EXCEPT ![r] = <<code_gen_cache[Key(u)]>>]
               /\ pc' = [pc EXCEPT ![r] = "done"]
               /\ UNCHANGED <<work, error>>
          ELSE IF abort_on_miss
          THEN /\ pc' = [pc EXCEPT ![r] = "failed"]
               /\ error' = [error EXCEPT ![r] = "KeyError"]
               /\ UNCHANGED <<work, result>>
          ELSE \E P \in Outcomes[i] :
                 /\ work' = [work EXCEPT ![r] = <<P>>]
                 /\ error' = [error EXCEPT ![r] = P.error]
                 /\ pc' = [pc EXCEPT ![r] = AfterPipeline(P)]
                 /\ result' = result
    /\ UNCHANGED <<CACHING_ENABLED, ABORT_ON_CACHE_MISS, code_gen_cache,
                   wrote, materialized, last_code, outside_orch>>

(* Lines 633-643.                                                          *)
AssembleAndStore(r) ==
    /\ pc[r] = "store"
    /\ LET cgr == PipelineResult(work[r][1])
           key == StoreKey(input_t_unit[r][1], work[r][1])
           new == IF CACHING_ENABLED
                  THEN store_if_not_present(code_gen_cache, key, cgr)
                  ELSE code_gen_cache
       IN  /\ code_gen_cache' = new
           /\ wrote' = [wrote EXCEPT ![r] = (new # code_gen_cache)]
           /\ materialized' =
                 IF new # code_gen_cache /\ key \in DOMAIN materialized
                 THEN [materialized EXCEPT ![key] = Append(@, cgr)]
                 ELSE materialized
           /\ result' = [result EXCEPT ![r] = <<cgr>>]
    /\ pc' = [pc EXCEPT ![r] = "done"]
    /\ UNCHANGED <<CACHING_ENABLED, ABORT_ON_CACHE_MISS, input_t_unit, work,
                   error, last_code, outside_orch>>

(* The call returns (or raises) and the run can be called again.           *)
ReturnToCaller(r) ==
    /\ pc[r] \in {"done", "failed"}
    /\ pc' = [pc EXCEPT ![r] = "idle"]
    /\ input_t_unit' = [input_t_unit EXCEPT ![r] = <<>>]
    /\ work' = [work EXCEPT ![r] = <<>>]
    /\ result' = [result EXCEPT ![r] = <<>>]
    /\ error' = [error EXCEPT ![r] = None]
    /\ wrote' = [wrote EXCEPT ![r] = FALSE]
    /\ UNCHANGED <<CACHING_ENABLED, ABORT_ON_CACHE_MISS, code_gen_cache,
                   materialized, outside_orch>>

Return(r) == ReturnToCaller(r) /\ UNCHANGED last_code

(* A caller that keeps the code of the call that just returned.            *)
ReturnSeq(r) ==
    /\ ReturnToCaller(r)
    /\ last_code' =
          IF pc[r] = "done"
          THEN store(last_code, Key(input_t_unit[r][1]),
                     all_code(result[r][1]))
          ELSE last_code

(***************************************************************************)
(* The vectorization engine: one call of try_vectorized or unvectorize on  *)
(* a context, with an emit function that is free to do anything.           *)
(***************************************************************************)
Domains ==
    {[dims |-> d, cns |-> c] :
        d \in {<<>>, <<"i">>, <<"j">>, <<"j", "i">>},
        c \in SUBSET {[iname |-> "j", rel |-> "==", rhs |-> 0]}}

SubstMaps ==
    {EmptyMap, [n \in {"j"} |-> 0], [n \in {"i"} |-> 7]}

Contexts ==
    {[implemented_domain |-> d, var_subst_map |-> m,
      vectorization_info |-> v] :
        d \in {x \in Domains : \A c \in x.cns : c.iname \in DimNames(x)},
        m \in SubstMaps,
        v \in {<<>>} \cup {<<VectorizationInfo("i", n)>> : n \in 1..MaxLength}}

VecIdle ==
    /\ cgs = [implemented_domain |-> [dims |-> <<>>, cns |-> {}],
              var_subst_map |-> EmptyMap, vectorization_info |-> <<>>]
    /\ entry = None
    /\ v_pc = "off"
    /\ lane = 0
    /\ calls = <<>>
    /\ outcomes = <<>>
    /\ vec_result = <<>>
    /\ warnings = <<>>
    /\ v_what = None
    /\ v_ret = <<>>

VecInit ==
    /\ cgs \in Contexts
    /\ entry = None
    /\ v_pc = "start"
    /\ lane = 0
    /\ calls = <<>>
    /\ outcomes = <<>>
    /\ vec_result = <<>>
    /\ warnings = <<>>
    /\ v_what = None
    /\ v_ret = <<>>

(* The labels try_vectorized is called with.                               *)
Labels == {"insn", "loop"}

warn_unlabelled(id, label, e) ==
    [id |-> id, what |-> "insn", reason |-> e]

(* Lines 256-258: the warning names what failed and why.                   *)
warn(id, label, e) == [id |-> id, what |-> label, reason |-> e]

(* Lines 250-260: try_vectorized(what, func) calls func(self).             *)
TryVectorized(o) ==
    /\ v_pc = "start"
    /\ entry' = "try_vectorized"
    /\ v_what' \in Labels
    /\ calls' = Append(calls, cgs)
    /\ outcomes' = Append(outcomes, o)
    /\ IF o.kind # "raise"
       THEN /\ v_pc' = "returned"
            /\ v_ret' = <<IF o.kind = "none" THEN <<>>
                          ELSE IF o.kind = "single" THEN Generated(cgs, o)[1]
                          ELSE Generated(cgs, o)>>
            /\ UNCHANGED warnings
       ELSE IF Catches(cgs)
       THEN /\ v_pc' = "unvectorize"
            /\ warnings' = Append(warnings,
                                  warn("vectorize_failed", v_what', o))
            /\ UNCHANGED v_ret
       ELSE /\ v_pc' = "raised"
            /\ UNCHANGED <<warnings, v_ret>>
    /\ UNCHANGED <<cgs, lane, vec_result, outside_vec>>

(* Lines 266-270: unvectorize(func) called directly.                       *)
Unvectorize ==
    /\ v_pc = "start"
    /\ cgs.vectorization_info # <<>>
    /\ entry' = "unvectorize"
    /\ v_pc' = "unvectorize"
    /\ UNCHANGED <<cgs, lane, calls, outcomes, vec_result, warnings, v_what,
                   v_ret, outside_vec>>

(* Lines 272-283: one iteration of the loop over the lanes.                *)
UnvectorizeLane(o) ==
    /\ v_pc = "unvectorize"
    /\ lane \in LaneRange(cgs.vectorization_info[1])
    /\ LET new_codegen_state == LaneContext(cgs, lane)
       IN  /\ calls' = Append(calls, new_codegen_state)
           /\ outcomes' = Append(outcomes, o)
           /\ IF o.kind = "raise"
              THEN v_pc' = "raised" /\ UNCHANGED <<lane, vec_result>>
              ELSE /\ vec_result' =
                        Collect(vec_result,
                                Generated(new_codegen_state, o), o)
                   /\ lane' = lane + 1
                   /\ v_pc' = v_pc
    /\ UNCHANGED <<cgs, entry, warnings, v_what, v_ret, outside_vec>>

(* Lines 285-286.                                                          *)
UnvectorizeMerge ==
    /\ v_pc = "unvectorize"
    /\ lane \notin LaneRange(cgs.vectorization_info[1])
    /\ v_ret' = <<merge_codegen_results(cgs, vec_result)>>
    /\ v_pc' = "returned"
    /\ UNCHANGED <<cgs, entry, lane, calls, outcomes, vec_result, warnings,
                   v_what, outside_vec>>

NextVec ==
    \/ \E o \in FuncOutcomes : TryVectorized(o)
    \/ Unvectorize
    \/ \E o \in FuncOutcomes : UnvectorizeLane(o)
    \/ UnvectorizeMerge

OrchIdle ==
    /\ CACHING_ENABLED = TRUE
    /\ ABORT_ON_CACHE_MISS = FALSE
    /\ code_gen_cache = EmptyMap
    /\ pc = [r \in Runs |-> "idle"]
    /\ input_t_unit = [r \in Runs |-> <<>>]
    /\ work = [r \in Runs |-> <<>>]
    /\ result = [r \in Runs |-> <<>>]
    /\ error = [r \in Runs |-> None]
    /\ wrote = [r \in Runs |-> FALSE]
    /\ materialized = [k \in SampleKeys |-> <<>>]
    /\ last_code = EmptyMap

(***************************************************************************)
(* diverge_callee_entrypoints, one statement at a time.  The units it is   *)
(* given: up to NumNames one-letter ids and the id a_0 (so that the name   *)
(* generator meets a taken name); every callable is a scalar callable or a *)
(* kernel calling at most one callable of the table; the entrypoints are a *)
(* non-empty set of kernels of the table.                                  *)
(***************************************************************************)
DivergeIds == {<<n>> : n \in 1..NumNames} \cup {<<1, 0>>}

Shapes(K) ==
    {[iskernel |-> TRUE, calls |-> c] : c \in {{}} \cup {{x} : x \in K}}
        \cup {[iskernel |-> FALSE, calls |-> {}]}

TableOf(K, f) ==
    LET ids == sorted(K)
    IN  [i \in 1..Len(ids) |->
            <<ids[i],
              IF f[ids[i]].iskernel
              THEN CallableKernel(
                       Kernel(ids[i], LINEARIZED, f[ids[i]].calls, 1, <<>>),
                       <<>>)
              ELSE ScalarCallable(<<>>)>>]

DivIdle ==
    /\ d_pc = "off"
    /\ d_unit = TranslationUnit(<<>>, {})
    /\ d_todo = EmptyMap
    /\ d_rest = <<>>
    /\ d_new = <<>>
    /\ d_ret = <<>>

DivInit ==
    /\ d_pc = "start"
    /\ \E K \in (SUBSET DivergeIds) \ {{}} :
          \E f \in [K -> Shapes(K)] :
             \E E \in (SUBSET {k \in K : f[k].iskernel}) \ {{}} :
                d_unit = TranslationUnit(TableOf(K, f), E)
    /\ d_todo = EmptyMap
    /\ d_rest = <<>>
    /\ d_new = <<>>
    /\ d_ret = <<>>

(* Lines 452-462: the reachable ids and the renames.                       *)
ComputeRenames ==
    /\ d_pc = "start"
    /\ d_todo' = todo_renames(d_unit)
    /\ d_rest' = d_unit.callables_table
    /\ d_pc' = "copy"
    /\ UNCHANGED <<d_unit, d_new, d_ret, outside_div>>

(* Lines 464-474: one iteration of the loop over the table's items.        *)
CopyCallable ==
    /\ d_pc = "copy"
    /\ d_rest # <<>>
    /\ d_new' = new_callables(<<Head(d_rest)>>, d_todo, d_new)
    /\ d_rest' = Tail(d_rest)
    /\ UNCHANGED <<d_pc, d_unit, d_todo, d_ret, outside_div>>

(* Line 476.                                                               *)
ReturnUnit ==
    /\ d_pc = "copy"
    /\ d_rest = <<>>
    /\ d_ret' = <<[d_unit EXCEPT !.callables_table = d_new]>>
    /\ d_pc' = "done"
    /\ UNCHANGED <<d_unit, d_todo, d_rest, d_new, outside_div>>

NextDiverge ==
    \/ ComputeRenames
    \/ CopyCallable
    \/ ReturnUnit

(***************************************************************************)
(* Specifications.                                                         *)
(***************************************************************************)
(* Concurrent runs of generate_code_v2 on one cache.                       *)
(***************************************************************************)
(* generate_code_for_a_single_kernel, one statement at a time.  The        *)
(* emission (generate_host_or_device_program) is free to derive contexts   *)
(* from the ones it has, by the methods of CodeGenerationState, and to add *)
(* to the collector sets of any of them.  A context holds references to    *)
(* its collector sets; k_heap holds what the referenced sets contain.      *)
(***************************************************************************)
MaxSteps == 3

(* The steps the emission has taken: contexts derived and elements added.  *)
EmissionSteps == Len(k_ctxs) - 1 + Cardinality(k_added)

SeenElems ==
    [seen_dtypes |-> {"float32"}, seen_functions |-> {"pow"},
     seen_atomic_dtypes |-> {"int32"}]

SetReplace(seen, elems) == elems

(* set.add on a collector set: lines 399-406, and the additions the        *)
(* emission makes through a context.                                       *)
SetAdd(seen, elems) == seen \cup elems

(* Two targets; a kernel has a target of its own (kernel.target).         *)
Targets == {"CTarget", "OpenCLTarget"}

(* The target the driver is called with.                                   *)
SelectedTarget == "CTarget"

(* The fields of a LoopKernel the driver reads: args and                   *)
(* temporary_variables are given by the dtypes of their variables,         *)
(* assumptions by its constraints, preamble_generators by their number.    *)
DriverKernels ==
    {[name |-> "knl", state |-> st, args |-> a,
      temporary_variables |-> {}, all_inames |-> {"i", "k"},
      index_dtype |-> "int32", linearization |-> <<>>,
      assumptions |-> {}, preamble_generators |-> g, target |-> t] :
        st \in {INITIAL, PREPROCESSED, LINEARIZED},
        a \in {{"float64"}},
        g \in {0},
        t \in Targets}

SampleKernels ==
    {[name |-> "knl", state |-> st, args |-> a,
      temporary_variables |-> tv, all_inames |-> ins,
      index_dtype |-> "int64", linearization |-> lin,
      assumptions |-> asm, preamble_generators |-> g, target |-> t] :
        st \in {PREPROCESSED, LINEARIZED},
        a \in {{}, {"float64"}, {"complex128"}},
        tv \in {{}, {"int32"}, {"complex64"}},
        ins \in {{}, {"i"}},
        lin \in {<<>>, <<"RunInstruction", "ReturnFromKernel">>},
        asm \in {{}, {[iname |-> "n", rel |-> ">=", rhs |-> 1]}},
        g \in {0, 2},
        t \in Targets}

(* src/loopy/target/__init__.py lines 136-137: attributes of a target.     *)
host_program_name_prefix(target) ==
    [target |-> target, attr |-> "host_program_name_prefix"]

host_program_name_suffix(target) ==
    [target |-> target, attr |-> "host_program_name_suffix"]

(* LoopyType.involves_complex.                                             *)
involves_complex(dtype) == dtype \in {"complex64", "complex128"}

allow_complex_by_args(kernel) ==
    \E dtype \in kernel.args : involves_complex(dtype)

(* Lines 350-353.                                                          *)
allow_complex(kernel) ==
    \E dtype \in kernel.args \cup kernel.temporary_variables :
        involves_complex(dtype)

(* src/loopy/target/__init__.py lines 148-158: the builders of a target.   *)
get_host_ast_builder(target) == [target |-> target, kind |-> "host"]

get_device_ast_builder(target) == [target |-> target, kind |-> "device"]

(* Lines 288-293.                                                          *)
ast_builder(self) ==
    IF self.is_generating_device_code
    THEN get_device_ast_builder(self.kernel.target)
    ELSE get_host_ast_builder(self.kernel.target)

StateUnchecked(kernel) == FALSE

(* Line 342: the precondition.                                             *)
NotLinearized(kernel) == kernel.state # LINEARIZED

(* Lines 365-385.                                                          *)
CodeGenerationState(kernel, target, seen_dtypes, seen_functions, seen_atomic_dtypes) ==
    [kernel |-> kernel,
     target |-> target,
     is_generating_device_code |-> FALSE,
     implemented_domain |-> [dims |-> <<>>, cns |-> kernel.assumptions],
     implemented_predicates |-> {},
     var_subst_map |-> EmptyMap,
     allow_complex |-> allow_complex(kernel),
     gen_program_name |-> <<host_program_name_prefix(target), kernel.name,
                            host_program_name_suffix(kernel.target)>>,
     schedule_index_end |-> Len(kernel.linearization),
     vectorization_info |-> <<>>,
     seen_dtypes |-> seen_dtypes,
     seen_functions |-> seen_functions,
     seen_atomic_dtypes |-> seen_atomic_dtypes]

(* Lines 310-324.                                                          *)
PreambleInfo(kernel, seen_dtypes, seen_functions, seen_atomic_dtypes, cs) ==
    [kernel |-> kernel,
     seen_dtypes |-> seen_dtypes,
     seen_functions |-> seen_functions,
     seen_atomic_dtypes |-> seen_atomic_dtypes,
     codegen_state |-> cs]

Derived(ctx, parent, op, args) ==
    [ctx |-> ctx, parent |-> parent, op |-> op, args |-> args]

(* Lines 422-424: the kernel's preamble generators and the target's one.   *)
NumGenerators == k_kernel.preamble_generators + 1

DrvIdle ==
    /\ k_pc = "off"
    /\ k_kernel = CHOOSE kernel \in DriverKernels :
                      kernel.state = LINEARIZED /\ kernel.target = SelectedTarget
    /\ k_heap = <<>>
    /\ k_ctxs = <<>>
    /\ k_added = {}
    /\ k_log = <<>>
    /\ k_info = <<>>
    /\ k_gens = <<>>
    /\ k_err = None

DrvInit ==
    /\ k_pc = "start"
    /\ k_kernel \in DriverKernels
    /\ k_heap = <<>>
    /\ k_ctxs = <<>>
    /\ k_added = {}
    /\ k_log = <<>>
    /\ k_info = <<>>
    /\ k_gens = <<>>
    /\ k_err = None

KernelInit ==
    /\ k_pc = "start"
    /\ k_kernel \in SampleKernels
    /\ k_heap = <<>>
    /\ k_ctxs = <<>>
    /\ k_added = {}
    /\ k_log = <<>>
    /\ k_info = <<>>
    /\ k_gens = <<>>
    /\ k_err = None

(* Lines 341-344.                                                          *)
CheckState ==
    /\ k_pc = "start"
    /\ IF NotLinearized(k_kernel)
       THEN k_pc' = "raised" /\ k_err' = "LoopyError"
       ELSE k_pc' = "checked" /\ UNCHANGED k_err
    /\ UNCHANGED <<k_kernel, k_heap, k_ctxs, k_added, k_log, k_info,
                   k_gens, outside_drv>>

(* Lines 357-385: the three sets are created, then the initial context.    *)
Construct ==
    /\ k_pc = "checked"
    /\ k_heap' = <<{}, {}, {}>>
    /\ k_ctxs' = <<Derived(CodeGenerationState(k_kernel, SelectedTarget,
                                               1, 2, 3),
                           0, "CodeGenerationState", <<>>)>>
    /\ k_log' = Append(k_log, "CodeGenerationState")
    /\ k_pc' = "constructed"
    /\ UNCHANGED <<k_kernel, k_added, k_info, k_gens, k_err, outside_drv>>

(* Lines 389-391: the call of generate_host_or_device_program.             *)
EmitStart ==
    /\ k_pc = "constructed"
    /\ k_log' = Append(k_log, "generate_host_or_device_program")
    /\ k_pc' = "emit"
    /\ UNCHANGED <<k_kernel, k_heap, k_ctxs, k_added, k_info, k_gens, k_err,
                   outside_drv>>

Derive(ctx, p, op, args) ==
    /\ k_pc = "emit"
    /\ EmissionSteps < MaxSteps
    /\ k_ctxs' = Append(k_ctxs, Derived(ctx, p, op, args))
    /\ UNCHANGED <<k_pc, k_kernel, k_heap, k_added, k_log, k_info, k_gens, k_err,
                   outside_drv>>

DeriveCopy ==
    \E p \in DOMAIN k_ctxs :
        \E kw \in {[is_generating_device_code |-> TRUE],
                   [vectorization_info |-> <<VectorizationInfo("k", 2)>>]} :
            Derive(copy(k_ctxs[p].ctx, kw), p, "copy", <<kw>>)

DeriveCopyAndAssign ==
    \E p \in DOMAIN k_ctxs : \E n \in {"k"} : \E v \in {5} :
        Derive(copy_and_assign(k_ctxs[p].ctx, n, v), p,
               "copy_and_assign", <<n, v>>)

DeriveCopyAndAssignMany ==
    \E p \in DOMAIN k_ctxs :
        \E a \in {[n \in {"i", "k"} |-> 1]} :
            Derive(copy_and_assign_many(k_ctxs[p].ctx, a), p,
                   "copy_and_assign_many", <<a>>)

DeriveFix ==
    \E p \in DOMAIN k_ctxs : \E n \in {"k"} : \E v \in {0, 5} :
        Derive(fix(k_ctxs[p].ctx, n, Aff(v)), p, "fix", <<n, v>>)

DeriveIntersect ==
    \E p \in DOMAIN k_ctxs :
        \E other \in {[dims |-> <<"j", "i">>,
                       cns |-> {[iname |-> "i", rel |-> "==", rhs |-> 0]}]} :
            Derive(intersect(k_ctxs[p].ctx, other), p, "intersect",
                   <<other>>)

(* Lines 270-275: the context unvectorize makes for lane i.                *)
DeriveUnvectorize ==
    \E p \in DOMAIN k_ctxs :
        /\ k_ctxs[p].ctx.vectorization_info # <<>>
        /\ \E i \in 0..(k_ctxs[p].ctx.vectorization_info[1].length - 1) :
              Derive(LaneContext(k_ctxs[p].ctx, i), p, "unvectorize", <<i>>)

(* The emission adds to a collector set through one of its contexts.       *)
SeenAdd ==
    /\ k_pc = "emit"
    /\ EmissionSteps < MaxSteps
    /\ \E p \in DOMAIN k_ctxs : \E w \in CollectorFields :
          \E e \in SeenElems[w] :
              /\ k_heap' = [k_heap EXCEPT
                                ![k_ctxs[p].ctx[w]] = SetAdd(@, {e})]
              /\ k_added' = k_added \cup {<<w, e, p>>}
    /\ UNCHANGED <<k_pc, k_kernel, k_ctxs, k_log, k_info, k_gens, k_err,
                   outside_drv>>

ArgDtypes(kernel) == kernel.args

(* Lines 399-406: what the driver adds to seen_dtypes after the emission.  *)
DeclaredDtypes(kernel) ==
    kernel.args \cup kernel.temporary_variables
    \cup (IF kernel.all_inames # {} THEN {kernel.index_dtype} ELSE {})

(* Lines 393-420: the emission has returned and the check of the           *)
(* implemented domains passed; the dtypes of the arguments, of the         *)
(* temporaries and of the loop indices are added through the local         *)
(* variable seen_dtypes, then the PreambleInfo is built from the locals.   *)
BuildPreambleInfo ==
    /\ k_pc = "emit"
    /\ k_heap' = [k_heap EXCEPT ![1] = SetAdd(@, DeclaredDtypes(k_kernel))]
    /\ k_added' = k_added \cup
                    {<<"seen_dtypes", e, 0>> : e \in DeclaredDtypes(k_kernel)}
    /\ k_info' = <<PreambleInfo(k_kernel, 1, 2, 3, k_ctxs[1].ctx)>>
    /\ k_log' = k_log \o <<"check_implemented_domains", "PreambleInfo">>
    /\ k_pc' = "generators"
    /\ UNCHANGED <<k_kernel, k_ctxs, k_gens, k_err, outside_drv>>

(* Lines 395-397: the assertion on check_implemented_domains fails.        *)
DomainCheckFails ==
    /\ k_pc = "emit"
    /\ k_log' = Append(k_log, "check_implemented_domains")
    /\ k_pc' = "raised"
    /\ k_err' = "AssertionError"
    /\ UNCHANGED <<k_kernel, k_heap, k_ctxs, k_added, k_info, k_gens,
                   outside_drv>>

(* One call prea_gen(preamble_info): the generator, where it comes from,   *)
(* and what it reads in the seen_dtypes of the PreambleInfo.               *)
GeneratorCall(from, info) ==
    [from |-> from, seen_dtypes |-> k_heap[info.seen_dtypes]]

(* Lines 422-439: the preamble generators of the kernel, then those of the *)
(* device AST builder of target, are called with the PreambleInfo, one     *)
(* after the other, and the result is returned.                            *)
DriverReturn ==
    /\ k_pc = "generators"
    /\ k_log' = k_log \o [g \in 1..NumGenerators |-> "prea_gen"]
    /\ k_gens' =
          [g \in 1..k_kernel.preamble_generators |->
              GeneratorCall([kind |-> "kernel", target |-> k_kernel.target],
                            k_info[1])]
          \o <<GeneratorCall(get_device_ast_builder(SelectedTarget),
                             k_info[1])>>
    /\ k_pc' = "returned"
    /\ UNCHANGED <<k_kernel, k_heap, k_ctxs, k_added, k_info, k_err,
                   outside_drv>>

NextDriver ==
    \/ CheckState
    \/ Construct
    \/ EmitStart
    \/ DeriveCopy
    \/ DeriveCopyAndAssign
    \/ DeriveCopyAndAssignMany
    \/ DeriveFix
    \/ DeriveIntersect
    \/ DeriveUnvectorize
    \/ SeenAdd
    \/ BuildPreambleInfo
    \/ DriverReturn

(* The driver on kernels of every shape, with an emission that only adds   *)
(* to the collector sets.                                                  *)
NextKernel ==
    \/ CheckState
    \/ Construct
    \/ EmitStart
    \/ SeenAdd
    \/ DomainCheckFails
    \/ BuildPreambleInfo
    \/ DriverReturn

(***************************************************************************)
(* The callers of a TranslationUnitCodeGenerationResult: host_code,        *)
(* device_code, all_code, and generate_code / generate_body with the       *)
(* result generate_code_v2 returned to them.                               *)
(***************************************************************************)
MaxPreambles == 3

(* The largest axis of an AxisTag and the largest value of an              *)
(* UnrollHintTag that are enumerated.                                      *)
MaxAxis == 11

SeqsUpTo(S, n) == UNION {[1..k -> S] : k \in 0..n}

PreamblePool ==
    {Preamble(0, "x"), Preamble(1, "x"), Preamble(0, "y"), Preamble(1, "y")}

HostProgramOf(n) == <<n, Program(n, Node("host", n, 0, <<>>))>>

DeviceProgramOf(n) == Program(n, Node("body", n, 1, <<>>))

RenderResults ==
    {[host_programs |-> [i \in DOMAIN hs |-> HostProgramOf(hs[i])],
      device_programs |-> [i \in DOMAIN ds |-> DeviceProgramOf(ds[i])],
      host_preambles |-> hp,
      device_preambles |-> dp] :
        hs \in {<<>>, << <<1>> >>, << <<1>>, <<2>> >>, << <<2>>, <<1>> >>},
        ds \in {<<>>, << <<1>> >>, << <<1>>, <<2>> >>, << <<2>>, <<1>> >>},
        hp \in SeqsUpTo(PreamblePool, 1),
        dp \in SeqsUpTo(PreamblePool, MaxPreambles)}

RndIdle ==
    /\ r_pc = "off"
    /\ r_cgr = TranslationUnitCodeGenerationResult(<<>>, <<>>, <<>>)
    /\ r_out = <<>>
    /\ r_err = None

RndInit ==
    /\ r_pc = "start"
    /\ r_cgr \in RenderResults
    /\ r_out = <<>>
    /\ r_err = None

(* Lines 505-512.                                                          *)
HostCode ==
    /\ r_pc = "start"
    /\ r_pc' = "host_code"
    /\ r_out' = <<host_code(r_cgr)>>
    /\ UNCHANGED <<r_cgr, r_err, outside_rnd>>

(* Lines 514-521.                                                          *)
DeviceCode ==
    /\ r_pc = "start"
    /\ r_pc' = "device_code"
    /\ r_out' = <<device_code(r_cgr)>>
    /\ UNCHANGED <<r_cgr, r_err, outside_rnd>>

(* Lines 523-537.                                                          *)
AllCode ==
    /\ r_pc = "start"
    /\ r_pc' = "all_code"
    /\ r_out' = <<all_code(r_cgr)>>
    /\ UNCHANGED <<r_cgr, r_err, outside_rnd>>

(* Lines 646-666; a result generate_code_v2 returned has a first device    *)
(* program (line 624).                                                     *)
GenerateCode ==
    /\ r_pc = "start"
    /\ r_cgr.device_programs # <<>>
    /\ r_pc' = "generate_code"
    /\ r_out' = generate_code(r_cgr).value
    /\ r_err' = generate_code(r_cgr).raised
    /\ UNCHANGED <<r_cgr, outside_rnd>>

(* Lines 673-682.                                                          *)
GenerateBody ==
    /\ r_pc = "start"
    /\ r_cgr.device_programs # <<>>
    /\ r_pc' = "generate_body"
    /\ r_out' = generate_body(r_cgr).value
    /\ r_err' = generate_body(r_cgr).raised
    /\ UNCHANGED <<r_cgr, outside_rnd>>

NextRender ==
    \/ HostCode
    \/ DeviceCode
    \/ AllCode
    \/ GenerateCode
    \/ GenerateBody

(***************************************************************************)
(* src/loopy/kernel/data.py: the construction of a TemporaryVariable.      *)
(* An initializer is None, a numpy array with its dtype and shape, or      *)
(* something else; a shape is auto or a tuple.                             *)
(***************************************************************************)
auto == "auto"

ShapeAuto == [kind |-> auto, dims |-> <<>>]

ShapeTuple(dims) == [kind |-> "tuple", dims |-> dims]

NoInitializer == [kind |-> None, dtype |-> None, shape |-> ShapeAuto]

NotAnArray == [kind |-> "list", dtype |-> None, shape |-> ShapeAuto]

ndarray(dtype, shape) == [kind |-> "ndarray", dtype |-> dtype, shape |-> shape]

TemporaryArgs ==
    {[dtype |-> dt, shape |-> sh, offset |-> off, base_storage |-> bs,
      initializer |-> ini, read_only |-> ro,
      _base_storage_access_may_be_aliasing |-> al] :
        dt \in {auto, None, "float64", "int32"},
        sh \in {ShapeAuto, ShapeTuple(<<2>>), ShapeTuple(<<3>>)},
        off \in {0, 1},
        bs \in {None, "buf"},
        ini \in {NoInitializer, NotAnArray}
                \cup {ndarray(d, ShapeTuple(h)) :
                        d \in {"float64", "int32"}, h \in {<<2>>, <<3>>}},
        ro \in BOOLEAN,
        al \in BOOLEAN}

(* Lines 736-771: the checks of the initializer; the exception raised, if  *)
(* any, and the dtype and shape to construct with.                         *)
InitializerCheck(a) ==
    IF a.initializer = NoInitializer
    THEN [raised |-> None, dtype |-> a.dtype, shape |-> a.shape]
    ELSE IF a.initializer.kind # "ndarray"
    THEN [raised |-> "LoopyError", dtype |-> a.dtype, shape |-> a.shape]
    ELSE IF a.offset # 0
    THEN [raised |-> "LoopyError", dtype |-> a.dtype, shape |-> a.shape]
    ELSE IF a.dtype \notin {auto, None} /\ a.dtype # a.initializer.dtype
    THEN [raised |-> "LoopyError", dtype |-> a.dtype, shape |-> a.shape]
    ELSE IF a.shape # ShapeAuto /\ a.shape # a.initializer.shape
    THEN [raised |-> "LoopyError", dtype |-> a.dtype, shape |-> a.shape]
    ELSE [raised |-> None, dtype |-> a.initializer.dtype,
          shape |-> a.initializer.shape]

(* Lines 773-793: the checks on read_only, base_storage and the aliasing   *)
(* option.                                                                 *)
OptionCheck(a) ==
    \/ ~a.read_only /\ a.initializer # NoInitializer
    \/ a.base_storage # None /\ a.initializer # NoInitializer
    \/ a.base_storage = None /\ a._base_storage_access_may_be_aliasing

(* Lines 711-807: TemporaryVariable.__init__.                              *)
TemporaryVariable(a) ==
    LET chk == InitializerCheck(a)
    IN  IF chk.raised # None THEN [raised |-> chk.raised, obj |-> <<>>]
        ELSE IF OptionCheck(a) THEN [raised |-> "LoopyError", obj |-> <<>>]
        ELSE [raised |-> None,
              obj |-> <<[a EXCEPT !.dtype = chk.dtype,
                                  !.shape = chk.shape]>>]

TmpIdle ==
    /\ t_pc = "off"
    /\ t_args = <<>>
    /\ t_obj = <<>>
    /\ t_err = None

TmpInit ==
    /\ t_pc = "start"
    /\ t_args \in {<<a>> : a \in TemporaryArgs}
    /\ t_obj = <<>>
    /\ t_err = None

ConstructTemporary ==
    /\ t_pc = "start"
    /\ t_pc' = "done"
    /\ t_obj' = TemporaryVariable(t_args[1]).obj
    /\ t_err' = TemporaryVariable(t_args[1]).raised
    /\ UNCHANGED <<t_args, outside_tmp>>

NextTemporary == ConstructTemporary

(***************************************************************************)
(* src/loopy/kernel/data.py: the iname implementation tags, their string   *)
(* form and parse_tag.  A Python str is the sequence of its characters.    *)
(* A tag is its class and the values of its dataclass fields: the classes  *)
(* derive from the frozen dataclass InameImplementationTag (line 180), so  *)
(* two tags are equal when they have the same class and the same fields.   *)
(* An optional int (UnrollHintTag.value) is <<>> for None and <<v>> for v.  *)
(***************************************************************************)
(* Lines 229-230, 237-238: the AxisTag classes, field axis.                *)
GroupInameTag(axis) == [cls |-> "GroupInameTag", fields |-> <<axis>>]

LocalInameTag(axis) == [cls |-> "LocalInameTag", fields |-> <<axis>>]

(* Lines 286-288: field value, None by default.                            *)
UnrollHintTag(value) == [cls |-> "UnrollHintTag", fields |-> value]

(* The classes without fields.                                             *)
FieldlessTag(cls) == [cls |-> cls, fields |-> <<>>]

Digits == <<"0", "1", "2", "3", "4", "5", "6", "7", "8", "9">>

RECURSIVE decimal(_)
decimal(n) ==
    IF n < 10 THEN <<Digits[n + 1]>>
    ELSE decimal(n \div 10) \o <<Digits[(n % 10) + 1]>>

(* The formatting of an int in an f-string.                                *)
format_int(n) == IF n < 0 THEN <<"-">> \o decimal(0 - n) ELSE decimal(n)

RECURSIVE lstrip(_)
lstrip(s) == IF s # <<>> /\ s[1] = " " THEN lstrip(Tail(s)) ELSE s

RECURSIVE rstrip(_)
rstrip(s) ==
    IF s # <<>> /\ s[Len(s)] = " " THEN rstrip(SubSeq(s, 1, Len(s) - 1))
    ELSE s

RECURSIVE digits_value(_)
digits_value(s) ==
    IF s = <<>> THEN 0
    ELSE 10 * digits_value(SubSeq(s, 1, Len(s) - 1))
         + (CHOOSE d \in 0..9 : Digits[d + 1] = s[Len(s)])

(* The builtin int on a str of spaces, signs and ASCII digits: surrounding *)
(* whitespace is dropped, one sign is allowed, at least one digit must     *)
(* follow; anything else raises ValueError.                                *)
int(s) ==
    LET t == rstrip(lstrip(s))
        signed == t # <<>> /\ t[1] \in {"-", "+"}
        body == IF signed THEN Tail(t) ELSE t
        ok == body # <<>>
              /\ \A i \in DOMAIN body : body[i] \in {Digits[d] : d \in 1..10}
    IN  IF ~ok THEN [raised |-> "ValueError", value |-> 0]
        ELSE [raised |-> None,
              value |-> IF signed /\ t[1] = "-" THEN 0 - digits_value(body)
                        ELSE digits_value(body)]

(* Lines 224-226: AxisTag.__str__, print_name "g" or "l".                  *)
AxisTag_str(print_name, self) ==
    <<print_name, ".">> \o format_int(self.fields[1])

(* Lines 295-300: a value that is None or 0 is not printed.                *)
UnrollHintTag_str(self) ==
    IF self.fields # <<>> /\ self.fields[1] # 0
    THEN <<"u", "n", "r", "_", "h", "i", "n", "t", ".">> \o format_int(self.fields[1])
    ELSE <<"u", "n", "r", "_", "h", "i", "n", "t">>

(* The classes that define __str__ (lines 224-312).                        *)
StringFormClasses ==
    {"GroupInameTag", "LocalInameTag", "AutoFitLocalInameTag",
     "UnrolledIlpTag", "LoopedIlpTag", "VectorizeTag", "UnrollTag",
     "UnrollHintTag", "ForceSequentialTag",
     "InOrderSequentialSequentialTag"}

(* str(tag).  ConcurrentTag (line 202) defines no __str__: its str is the  *)
(* repr of the dataclass it derives from.                                  *)
TagStr(self) ==
    CASE self.cls = "GroupInameTag" -> AxisTag_str("g", self)
      [] self.cls = "LocalInameTag" -> AxisTag_str("l", self)
      [] self.cls = "AutoFitLocalInameTag" -> <<"l", ".", "a", "u", "t", "o">>
      [] self.cls = "UnrolledIlpTag" -> <<"i", "l", "p", ".", "u", "n", "r">>
      [] self.cls = "LoopedIlpTag" -> <<"i", "l", "p", ".", "s", "e", "q">>
      [] self.cls = "VectorizeTag" -> <<"v", "e", "c">>
      [] self.cls = "UnrollTag" -> <<"u", "n", "r">>
      [] self.cls = "UnrollHintTag" -> UnrollHintTag_str(self)
      [] self.cls = "ForceSequentialTag" -> <<"f", "o", "r", "c", "e", "s", "e", "q">>
      [] self.cls = "InOrderSequentialSequentialTag" -> <<"o", "r", "d">>
      [] OTHER -> <<"C", "o", "n", "c", "u", "r", "r", "e", "n", "t", "T", "a", "g", "(", ")">>

startswith(s, prefix) ==
    Len(s) >= Len(prefix) /\ SubSeq(s, 1, Len(prefix)) = prefix

(* tag[offset:]                                                            *)
SliceFrom(s, offset) == SubSeq(s, offset + 1, Len(s))

(* The arguments of parse_tag: a Tag, a str, None, or something else.      *)
TagArg(tag) == [type |-> "Tag", tag |-> <<tag>>, chars |-> <<>>]

StrArg(chars) == [type |-> "str", tag |-> <<>>, chars |-> chars]

NoneArg == [type |-> "NoneType", tag |-> <<>>, chars |-> <<>>]

IntArg == [type |-> "int", tag |-> <<>>, chars |-> <<>>]

Returns(tag) == [raised |-> None, value |-> <<tag>>]

ReturnsNone == [raised |-> None, value |-> <<>>]

Raises(exc) == [raised |-> exc, value |-> <<>>]

(* A tag built from int(...), or the ValueError int raised.                *)
FromInt(n, cls) ==
    IF n.raised # None THEN Raises(n.raised)
    ELSE Returns([cls |-> cls, fields |-> <<n.value>>])

(* Lines 318-354.                                                          *)
parse_tag(tag) ==
    IF tag.type = "NoneType" THEN ReturnsNone
    ELSE IF tag.type = "Tag" THEN Returns(tag.tag[1])
    ELSE IF tag.type # "str" THEN Raises("ValueError")
    ELSE LET t == tag.chars IN
         IF t = <<"f", "o", "r">> THEN ReturnsNone
         ELSE IF t = <<"o", "r", "d">>
              THEN Returns(FieldlessTag("InOrderSequentialSequentialTag"))
         ELSE IF t \in {<<"u", "n", "r">>} THEN Returns(FieldlessTag("UnrollTag"))
         ELSE IF t \in {<<"v", "e", "c">>} THEN Returns(FieldlessTag("VectorizeTag"))
         ELSE IF t \in {<<"i", "l", "p">>, <<"i", "l", "p", ".", "u", "n", "r">>}
              THEN Returns(FieldlessTag("UnrolledIlpTag"))
         ELSE IF t = <<"i", "l", "p", ".", "s", "e", "q">> THEN Returns(FieldlessTag("LoopedIlpTag"))
         ELSE IF t = <<"u", "n", "r", "_", "h", "i", "n", "t">> THEN Returns(UnrollHintTag(<<>>))
         ELSE IF startswith(t, <<"u", "n", "r", "_", "h", "i", "n", "t", ".">>)
              THEN FromInt(int(SliceFrom(t, Len(<<"u", "n", "r", "_", "h", "i", "n", "t", ".">>))),
                           "UnrollHintTag")
         ELSE IF startswith(t, <<"g", ".">>)
              THEN FromInt(int(SliceFrom(t, 2)), "GroupInameTag")
         ELSE IF startswith(t, <<"l", ".">>)
              THEN LET axis == SliceFrom(t, 2) IN
                   IF axis = <<"a", "u", "t", "o">>
                   THEN Returns(FieldlessTag("AutoFitLocalInameTag"))
                   ELSE FromInt(int(axis), "LocalInameTag")
         ELSE Raises("ValueError")

Axes == (0 - 1)..MaxAxis

SampleTags ==
    {GroupInameTag(a) : a \in Axes}
    \cup {LocalInameTag(a) : a \in Axes}
    \cup {UnrollHintTag(<<v>>) : v \in 0..MaxAxis}
    \cup {UnrollHintTag(<<>>)}
    \cup {FieldlessTag(cls) :
            cls \in (StringFormClasses \cup {"ConcurrentTag"})
                    \ {"GroupInameTag", "LocalInameTag", "UnrollHintTag"}}

SampleStrings ==
    {<<"f", "o", "r">>, <<"o", "r", "d">>, <<"u", "n", "r">>, <<"v", "e", "c">>, <<"i", "l", "p">>, <<"i", "l", "p", ".", "u", "n", "r">>, <<"i", "l", "p", ".", "s", "e", "q">>, <<"u", "n", "r", "_", "h", "i", "n", "t">>, <<"l", ".", "a", "u", "t", "o">>, <<"f", "o", "r", "c", "e", "s", "e", "q">>,
     <<>>, <<"s", "e", "q">>, <<"g", ".">>, <<"g", ".", "x">>,
     <<"l", ".">>, <<"l", ".", "-">>, <<"g", ".", " ", "1">>,
     <<"g", ".", "+", "1">>, <<"G", ".", "0">>, <<"o", "r", "d", " ">>,
     <<"u", "n", "r", "_", "h", "i", "n", "t", ".">>, <<"u", "n", "r", "_", "h", "i", "n", "t", ".">> \o <<"0">>, <<"u", "n", "r", "_", "h", "i", "n", "t", ".">> \o <<"x">>,
     <<"l", ".", "1", "0">>, <<"C", "o", "n", "c", "u", "r", "r", "e", "n", "t", "T", "a", "g", "(", ")">>}

TagArguments ==
    {TagArg(t) : t \in SampleTags} \cup {StrArg(c) : c \in SampleStrings}
    \cup {NoneArg, IntArg}

TagIdle ==
    /\ p_pc = "off"
    /\ p_arg = NoneArg
    /\ p_str = <<>>
    /\ p_out = ReturnsNone

TagInit ==
    /\ p_pc = "start"
    /\ p_arg \in TagArguments
    /\ p_str = <<>>
    /\ p_out = ReturnsNone

(* parse_tag(arg)                                                          *)
ParseTag ==
    /\ p_pc = "start"
    /\ p_out' = parse_tag(p_arg)
    /\ p_pc' = "parsed"
    /\ UNCHANGED <<p_arg, p_str, outside_tag>>

(* str(tag) of a tag                                                       *)
StrOfTag ==
    /\ p_pc = "start"
    /\ p_arg.type = "Tag"
    /\ p_str' = <<TagStr(p_arg.tag[1])>>
    /\ p_pc' = "str"
    /\ UNCHANGED <<p_arg, p_out, outside_tag>>

(* parse_tag(str(tag))                                                     *)
ParseStr ==
    /\ p_pc = "str"
    /\ p_out' = parse_tag(StrArg(p_str[1]))
    /\ p_pc' = "roundtrip"
    /\ UNCHANGED <<p_arg, p_str, outside_tag>>

NextTag == ParseTag \/ StrOfTag \/ ParseStr


Next ==
    \/ \E r \in Runs, i \in DOMAIN SharedUnitSeq : Begin(r, i)
    \/ \E r \in Runs : AssembleAndStore(r)
    \/ \E r \in Runs : Return(r)

(* One caller, calling generate_code_v2 again and again.                   *)
NextSeq ==
    \/ \E i \in DOMAIN SampleUnitSeq : Begin(1, i)
    \/ AssembleAndStore(1)
    \/ ReturnSeq(1)

Init == OrchInit(SharedKeys) /\ VecIdle /\ DivIdle /\ DrvIdle /\ RndIdle
    /\ TmpIdle /\ TagIdle

InitSeq == OrchInit(SampleKeys) /\ VecIdle /\ DivIdle /\ DrvIdle /\ RndIdle
    /\ TmpIdle /\ TagIdle

Spec == Init /\ [][Next]_vars

SpecSeq == InitSeq /\ [][NextSeq]_vars

InitVec == OrchIdle /\ VecInit /\ DivIdle /\ DrvIdle /\ RndIdle
    /\ TmpIdle /\ TagIdle

SpecVec == InitVec /\ [][NextVec]_vars

InitDiverge == OrchIdle /\ VecIdle /\ DivInit /\ DrvIdle /\ RndIdle
    /\ TmpIdle /\ TagIdle

SpecDiverge == InitDiverge /\ [][NextDiverge]_vars

InitDriver == OrchIdle /\ VecIdle /\ DivIdle /\ DrvInit /\ RndIdle
    /\ TmpIdle /\ TagIdle

SpecDriver == InitDriver /\ [][NextDriver]_vars

InitKernel == OrchIdle /\ VecIdle /\ DivIdle /\ KernelInit /\ RndIdle
    /\ TmpIdle /\ TagIdle

SpecKernel == InitKernel /\ [][NextKernel]_vars

InitRender == OrchIdle /\ VecIdle /\ DivIdle /\ DrvIdle /\ RndInit
    /\ TmpIdle /\ TagIdle

SpecRender == InitRender /\ [][NextRender]_vars

InitTemporary ==
    OrchIdle /\ VecIdle /\ DivIdle /\ DrvIdle /\ RndIdle /\ TmpInit
    /\ TagIdle

InitTag ==
    OrchIdle /\ VecIdle /\ DivIdle /\ DrvIdle /\ RndIdle /\ TmpIdle
    /\ TagInit

SpecTag == InitTag /\ [][NextTag]_vars

SpecTemporary == InitTemporary /\ [][NextTemporary]_vars

(***************************************************************************)
(* Properties of generate_code_v2 and the code-generation cache.           *)
(***************************************************************************)
Started(r) == pc[r] = "idle" /\ pc'[r] # "idle"

(* C1: with caching enabled, a call on a unit whose key the cache holds    *)
(* returns exactly the cached entry, runs no stage of the pipeline and     *)
(* leaves the cache as it is, in that step and up to its return.           *)
C1_HitReturnsEntry ==
    [][\A r \in Runs :
          /\ (Started(r) /\ CACHING_ENABLED
                /\ Key(input_t_unit'[r][1]) \in DOMAIN code_gen_cache)
             => /\ pc'[r] = "done"
                /\ result'[r] =
                      <<code_gen_cache[Key(input_t_unit'[r][1])]>>
                /\ work'[r] = <<>>
                /\ error'[r] = None
                /\ code_gen_cache' = code_gen_cache
          /\ (pc[r] = "done" /\ work[r] = <<>> /\ pc'[r] # pc[r])
             => pc'[r] = "idle" /\ code_gen_cache' = code_gen_cache]_vars

C1_Witness ==
    \E r \in Runs :
        /\ pc[r] = "done" /\ work[r] = <<>>
        /\ result[r] = <<code_gen_cache[Key(input_t_unit[r][1])]>>

(* C2: with caching enabled, a call on a unit that an earlier call has     *)
(* already compiled returns a result whose all_code() is the one the       *)
(* earlier call returned, and runs no stage.                               *)
C2_CacheIdempotence ==
    (CACHING_ENABLED /\ pc[1] = "done"
        /\ Key(input_t_unit[1][1]) \in DOMAIN last_code)
    => /\ all_code(result[1][1]) = last_code[Key(input_t_unit[1][1])]
       /\ work[1] = <<>>

C2_Witness ==
    /\ CACHING_ENABLED /\ pc[1] = "done"
    /\ Key(input_t_unit[1][1]) \in DOMAIN last_code
    /\ Len(materialized[Key(input_t_unit[1][1])]) = 1
    /\ all_code(result[1][1]) = last_code[Key(input_t_unit[1][1])]

(* C3: the cache is write-once: no step changes or removes the value held  *)
(* under a key.                                                            *)
C3_WriteOnce ==
    [][\A k \in DOMAIN code_gen_cache :
          k \in DOMAIN code_gen_cache'
          /\ code_gen_cache'[k] = code_gen_cache[k]]_vars

C3_Witness ==
    \E r \in Runs :
        /\ CACHING_ENABLED /\ pc[r] = "done" /\ work[r] # <<>>
        /\ ~wrote[r]
        /\ code_gen_cache[Key(input_t_unit[r][1])] # result[r][1]

(* C4: whatever the interleaving of the runs, the entry of a key is        *)
(* materialized at most once, the cache holds the first value written, and *)
(* every run served from the cache after that write got this value.        *)
C4_AtMostOnce ==
    \A k \in DOMAIN materialized :
        /\ Len(materialized[k]) <= 1
        /\ Len(materialized[k]) = 1
           => /\ k \in DOMAIN code_gen_cache
              /\ code_gen_cache[k] = materialized[k][1]
              /\ \A r \in Runs :
                    (pc[r] = "done" /\ work[r] = <<>>
                        /\ Key(input_t_unit[r][1]) = k)
                    => result[r] = <<materialized[k][1]>>

C4_Witness ==
    \E r1, r2 \in Runs :
        /\ r1 # r2
        /\ pc[r1] = "done" /\ pc[r2] = "done"
        /\ work[r1] # <<>> /\ work[r2] # <<>>
        /\ Key(input_t_unit[r1][1]) = Key(input_t_unit[r2][1])
        /\ wrote[r1] /\ ~wrote[r2]
        /\ result[r1] # result[r2]

(* C5: in strict mode a cache miss ends the call with the KeyError: no     *)
(* stage runs, nothing is returned and the cache is unchanged.             *)
C5_StrictMiss ==
    [][\A r \in Runs :
          /\ (Started(r) /\ CACHING_ENABLED /\ ABORT_ON_CACHE_MISS
                /\ Key(input_t_unit'[r][1]) \notin DOMAIN code_gen_cache)
             => /\ pc'[r] = "failed"
                /\ error'[r] = "KeyError"
                /\ work'[r] = <<>>
                /\ result'[r] = <<>>
                /\ code_gen_cache' = code_gen_cache
          /\ (pc[r] = "failed" /\ pc'[r] # pc[r])
             => pc'[r] = "idle" /\ code_gen_cache' = code_gen_cache]_vars

C5_Witness ==
    \E r \in Runs :
        /\ pc[r] = "failed" /\ error[r] = "KeyError"
        /\ code_gen_cache # EmptyMap

(* C6: a run that a stage ended with an error returns nothing and has not  *)
(* written to the cache, and the cache only ever holds results of complete *)
(* runs.                                                                   *)
C6_NoPartialResult ==
    /\ \A r \in Runs :
          error[r] # None
          => pc[r] = "failed" /\ result[r] = <<>> /\ ~wrote[r]
    /\ \A k \in DOMAIN code_gen_cache :
          code_gen_cache[k] \in CompleteResults(k)

C6_Witness ==
    \E r \in Runs :
        /\ CACHING_ENABLED /\ pc[r] = "failed"
        /\ error[r] = "generate_code_for_a_single_kernel"
        /\ work[r][1].device_programs # <<>>

(***************************************************************************)
(* Properties of try_vectorized and unvectorize.                           *)
(***************************************************************************)
(* The calls of the emit function made by the loop of unvectorize come     *)
(* after the vectorized attempt of try_vectorized, if there was one.       *)
Attempts == IF entry = "try_vectorized" THEN 1 ELSE 0

LaneCalls == Len(calls) - Attempts

FellBack == v_pc \in {"unvectorize", "returned", "raised"} /\
            (entry = "unvectorize" \/ warnings # <<>>)

LastRaised ==
    outcomes # <<>> /\ outcomes[Len(outcomes)].kind = "raise"

(* C7 as claimed: an UnvectorizableError of the emit function never leaves *)
(* try_vectorized.                                                         *)
C7_NeverPropagates == ~(entry = "try_vectorized" /\ v_pc = "raised")

(* C7 as amended: raised by the first call on a vectorizing context, the   *)
(* error is caught, one warning is issued and the fallback runs; raised on *)
(* a scalar context or by a lane call of the fallback, it leaves           *)
(* try_vectorized.                                                         *)
C7_CaughtOnVectorizedAttempt ==
    entry = "try_vectorized" =>
      /\ (cgs.vectorization_info # <<>> /\ outcomes[1].kind = "raise")
         => /\ Len(warnings) = 1
            /\ warnings[1].id = "vectorize_failed"
            /\ FellBack
            /\ v_pc = "raised" => LaneCalls >= 1
      /\ (cgs.vectorization_info = <<>> /\ outcomes[1].kind = "raise")
         => v_pc = "raised" /\ warnings = <<>> /\ Len(calls) = 1
      /\ (LaneCalls >= 1 /\ LastRaised) => v_pc = "raised"
      /\ v_pc = "raised" => LastRaised

C7_Witness ==
    /\ entry = "try_vectorized" /\ v_pc = "returned"
    /\ outcomes[1].kind = "raise"
    /\ LaneCalls = cgs.vectorization_info[1].length

(* C8: the loop of unvectorize calls the emit function once per lane, in   *)
(* increasing lane order; the context of lane i has no vectorization_info, *)
(* binds the iname to i and constrains it to equal i in                    *)
(* implemented_domain; after the loop there were exactly length calls; the *)
(* receiver is never changed.                                              *)
C8_LaneContexts ==
    /\ [](FellBack =>
            LET n == cgs.vectorization_info[1].iname
                L == cgs.vectorization_info[1].length
            IN  /\ LaneCalls <= L
                /\ v_pc = "returned" => LaneCalls = L
                /\ \A k \in 1..LaneCalls :
                      LET c == calls[Attempts + k]
                      IN  /\ c.vectorization_info = <<>>
                          /\ n \in DOMAIN c.var_subst_map
                          /\ c.var_subst_map[n] = k - 1
                          /\ n \in DimNames(c.implemented_domain)
                          /\ [iname |-> n, rel |-> "==", rhs |-> k - 1]
                                \in c.implemented_domain.cns)
    /\ [][cgs' = cgs]_vars

C8_Witness ==
    /\ entry = "unvectorize" /\ v_pc = "returned"
    /\ cgs.vectorization_info[1].length >= 2
    /\ LaneCalls = cgs.vectorization_info[1].length
    /\ "i" \notin DimNames(cgs.implemented_domain)
    /\ "i" \in DimNames(calls[1].implemented_domain)

(* C9: the result of the fallback is the merge of the lane results in lane *)
(* order: lane i contributes, in their order, as many pieces as its call   *)
(* returned (none for None or an empty list), each emitted with the iname  *)
(* replaced by i; so L single results give exactly L copies, for lanes     *)
(* 0..L-1.                                                                 *)
RECURSIVE ExpectedPieces(_, _)
ExpectedPieces(k, L) ==
    IF k > L THEN <<>>
    ELSE [j \in 1..outcomes[Attempts + k].n |-> [part |-> j, lane |-> k - 1]]
         \o ExpectedPieces(k + 1, L)

C9_UnrolledCopies ==
    (FellBack /\ v_pc = "returned") =>
        LET n == cgs.vectorization_info[1].iname
            L == cgs.vectorization_info[1].length
            asts == v_ret[1].asts
        IN  /\ [x \in DOMAIN asts |->
                   [part |-> asts[x].part, lane |-> asts[x].subst[n]]]
               = ExpectedPieces(1, L)
            /\ \A x \in DOMAIN asts : asts[x].vec = <<>>
            /\ (\A k \in 1..L : outcomes[Attempts + k].kind = "single")
               => /\ Len(asts) = L
                  /\ \A k \in 1..L : asts[k].subst[n] = k - 1

C9_Witness ==
    /\ entry = "try_vectorized" /\ v_pc = "returned" /\ FellBack
    /\ cgs.vectorization_info[1].length >= 2
    /\ \A k \in 1..LaneCalls : outcomes[Attempts + k].kind = "single"
    /\ Len(v_ret[1].asts) = cgs.vectorization_info[1].length

(***************************************************************************)
(* Properties of diverge_callee_entrypoints.                               *)
(***************************************************************************)
(* The statements of the function, run one at a time, compute the value    *)
(* the pipeline uses.                                                      *)
DivergeStepsAgree ==
    d_pc = "done" => d_ret[1] = diverge_callee_entrypoints(d_unit)

(* C10: in the unit returned, no id is both an entrypoint and reachable as *)
(* a callee from the entrypoints, whether the search starts at the         *)
(* entrypoint ids or at the names their bodies now carry.                  *)
C10_NoEntrypointIsCallee ==
    d_pc = "done" =>
        LET r == d_ret[1]
            bodies == {ApplyRenames(d_todo, e) : e \in r.entrypoints}
        IN  /\ get_reachable_resolved_callable_ids(
                   r.callables_table, r.entrypoints) \cap r.entrypoints = {}
            /\ get_reachable_resolved_callable_ids(
                   r.callables_table, bodies) \cap r.entrypoints = {}

C10_Witness ==
    /\ d_pc = "done"
    /\ \E e \in DOMAIN d_todo :
          /\ e = <<1>> /\ d_todo[e] = <<1, 1>>
          /\ e \in d_unit.entrypoints
          /\ e \in get_reachable_resolved_callable_ids(
                       d_unit.callables_table, d_unit.entrypoints)
          /\ d_todo[e] \in get_reachable_resolved_callable_ids(
                       d_ret[1].callables_table, {d_todo[e]})
          /\ <<1, 0>> \in DictKeys(d_unit.callables_table)

(* C11: every id that is both an entrypoint and a reachable callee has,    *)
(* in the table returned, a kernel under its own name and another under    *)
(* the fresh name.                                                         *)
C11_TwoBodies ==
    d_pc = "done" =>
        \A e \in ToRename(d_unit) :
            /\ d_todo[e] # e
            /\ e \in KernelIds(d_ret[1].callables_table)
            /\ d_todo[e] \in KernelIds(d_ret[1].callables_table)

(* C12: in the table returned no call site names a renamed id, every call  *)
(* site is the renamed image of the one it was, a callable that is not     *)
(* renamed keeps its id and everything but these call sites, and with      *)
(* nothing to rename the table is the one passed in.                       *)
C12_RenamesOnlyDiverged ==
    d_pc = "done" =>
        LET old == d_unit.callables_table
            new == d_ret[1].callables_table
            moved == ToRename(d_unit)
        IN  /\ Len(new) = Len(old)
            /\ \A i \in DOMAIN old :
                  LET id == old[i][1]
                      was == old[i][2]
                      now == new[i][2]
                  IN  /\ new[i][1] = (IF id \in moved THEN d_todo[id] ELSE id)
                      /\ now.iskernel = was.iskernel
                      /\ now.cpre = was.cpre
                      /\ now.subkernel.calls \cap moved = {}
                      /\ now.subkernel.calls =
                            {IF c \in moved THEN d_todo[c] ELSE c :
                                c \in was.subkernel.calls}
                      /\ id \notin moved =>
                            now = [was EXCEPT !.subkernel.calls =
                                                  now.subkernel.calls]
            /\ \A id \in moved : d_todo[id] \notin DictKeys(old)
            /\ moved = {} => d_ret[1] = d_unit

C12_Witness ==
    /\ d_pc = "done"
    /\ \E i, j \in DOMAIN d_unit.callables_table :
          LET old == d_unit.callables_table
              new == d_ret[1].callables_table
          IN  /\ old[i][1] \in ToRename(d_unit)
              /\ old[j][1] \notin ToRename(d_unit)
              /\ old[i][1] \in old[j][2].subkernel.calls
              /\ new[j][1] = old[j][1]
              /\ new[i][1] \in new[j][2].subkernel.calls

(***************************************************************************)
(* Properties of the assembly in generate_code_v2.                         *)
(***************************************************************************)
(* The ids the driver was called with in a pipeline, in call order.        *)
DriverCalls(P) ==
    LET calledFor == SelectSeq(P.stages,
                         LAMBDA ev :
                            ev.stage = "generate_code_for_a_single_kernel")
    IN  [k \in DOMAIN calledFor |-> calledFor[k].id]

Ascending(ids) ==
    \A k \in DOMAIN ids : \A l \in DOMAIN ids :
        k < l => IdLess(ids[k], ids[l]) /\ ids[k] # ids[l]

Elements(seq) == {seq[k] : k \in DOMAIN seq}

(* C13: the driver is called in strictly ascending id order, only for      *)
(* kernels of the table; a run that completes called it for every kernel,  *)
(* once; the callee forward declarations are in ascending id order, one    *)
(* per kernel that is no entrypoint.                                       *)
C13_SortedAssembly ==
    \A r \in Runs :
        work[r] # <<>> =>
            LET P == work[r][1]
                table == P.t_unit.callables_table
                ids == DriverCalls(P)
                decls == [k \in DOMAIN P.callee_fdecls |->
                             P.callee_fdecls[k].name]
            IN  /\ Ascending(ids)
                /\ Elements(ids) \subseteq KernelIds(table)
                /\ Ascending(decls)
                /\ Elements(decls) \subseteq
                      KernelIds(table) \ P.t_unit.entrypoints
                /\ P.error = None =>
                      /\ Elements(ids) = KernelIds(table)
                      /\ Elements(decls) =
                            KernelIds(table) \ P.t_unit.entrypoints

C13_Witness ==
    /\ pc[1] = "store"
    /\ input_t_unit[1] = <<UnitBAC>>
    /\ DriverCalls(work[1][1]) = << <<1>>, <<2>>, <<3>> >>
    /\ Len(work[1][1].callee_fdecls) = 2
    /\ work[1][1].callee_fdecls[1].name = <<2>>

(* A run that computed its result and returned it.                         *)
Computed(r) == pc[r] = "done" /\ work[r] # <<>>

(* The body a device program carries: the program's AST, or the last       *)
(* element of the Collection put around it.                                *)
BodyOf(prg) ==
    IF prg.ast.kind = "Collection"
    THEN prg.ast.contents[Len(prg.ast.contents)]
    ELSE prg.ast

(* C14: in a result, the first device program is the Collection of the     *)
(* forward declarations of all kernels that are no entrypoints, followed   *)
(* by its own body; every later device program is the body the driver      *)
(* returned; the device programs are those of the kernels, in the order    *)
(* the driver returned them.                                               *)
C14_FdeclsInFirstProgram ==
    \A r \in Runs :
        Computed(r) =>
            LET P == work[r][1]
                table == P.t_unit.callables_table
                dps == result[r][1].device_programs
                first == dps[1].ast
                n == Len(first.contents)
                bodies == [k \in DOMAIN dps |->
                              <<BodyOf(dps[k]).name, BodyOf(dps[k]).part>>]
            IN  /\ dps # <<>>
                /\ first.kind = "Collection"
                /\ first.contents[n].kind = "body"
                /\ \A k \in 1..(n - 1) : first.contents[k].kind = "fdecl"
                /\ {first.contents[k].name : k \in 1..(n - 1)}
                      = KernelIds(table) \ P.t_unit.entrypoints
                /\ n - 1 = Cardinality(KernelIds(table) \ P.t_unit.entrypoints)
                /\ \A k \in 2..Len(dps) : dps[k].ast.kind = "body"
                /\ \A k \in DOMAIN dps : dps[k].name = bodies[k][1]
                /\ Elements(bodies) =
                      UNION {{<<id, j>> :
                                j \in 1..DictGet(table, id).subkernel.ndev} :
                             id \in KernelIds(table)}
                /\ \A k \in DOMAIN dps : \A l \in DOMAIN dps :
                      k < l => \/ IdLess(bodies[k][1], bodies[l][1])
                                  /\ bodies[k][1] # bodies[l][1]
                               \/ bodies[k][1] = bodies[l][1]
                                  /\ bodies[k][2] < bodies[l][2]

C14_Witness ==
    /\ Computed(1)
    /\ input_t_unit[1] = <<UnitBAC>>
    /\ Len(result[1][1].device_programs) = 3
    /\ Len(result[1][1].device_programs[1].ast.contents) = 3
    /\ result[1][1].device_programs[2].ast.kind = "body"

(* C15: the host programs of a computed result are keyed by exactly the    *)
(* entrypoints of the unit that was passed in.                             *)
C15_HostProgramPerEntrypoint ==
    \A r \in Runs :
        Computed(r) =>
            LET u == IF input_t_unit[r][1].bare
                     THEN make_program(input_t_unit[r][1])
                     ELSE input_t_unit[r][1]
            IN  DictKeys(result[r][1].host_programs) = u.entrypoints

(* C16: when the driver returns, for a kernel that is no entrypoint, a     *)
(* number of device programs other than one, the run ends there with the   *)
(* AssertionError and returns nothing; a run that completes hoisted one    *)
(* forward declaration per kernel that is no entrypoint, that of its one   *)
(* device program.                                                         *)
C16_OneDeviceProgramPerCallee ==
    \A r \in Runs :
        work[r] # <<>> =>
            LET P == work[r][1]
                table == P.t_unit.callables_table
                ids == DriverCalls(P)
                callees == KernelIds(table) \ P.t_unit.entrypoints
                returned(k) ==
                    k < Len(ids) \/
                    P.error \notin {"LoopyError",
                                    "generate_code_for_a_single_kernel"}
                odd(id) ==
                    id \in callees /\ DictGet(table, id).subkernel.ndev # 1
            IN  /\ \A k \in DOMAIN ids :
                      (odd(ids[k]) /\ returned(k))
                      => /\ k = Len(ids)
                         /\ P.error = "AssertionError"
                /\ P.error = "AssertionError"
                   => /\ pc[r] = "failed" /\ result[r] = <<>>
                      /\ error[r] = "AssertionError"
                      /\ ids # <<>> /\ odd(ids[Len(ids)])
                /\ P.error = None
                   => /\ Len(P.callee_fdecls) = Cardinality(callees)
                      /\ \A id \in callees :
                            /\ DictGet(table, id).subkernel.ndev = 1
                            /\ \E k \in DOMAIN P.callee_fdecls :
                                  P.callee_fdecls[k].name = id

C16_Witness ==
    /\ input_t_unit[1] = <<UnitBad>>
    /\ pc[1] = "failed"
    /\ error[1] = "AssertionError"
    /\ DriverCalls(work[1][1]) = << <<1>>, <<2>> >>
    /\ result[1] = <<>>

(* C17: the driver called on a kernel whose state is not LINEARIZED raises *)
(* LoopyError, and no context was constructed, no emission started and no  *)
(* preamble generator called; it never goes past the check.                *)
C17_LinearizedOrLoopyError ==
    (k_pc # "off" /\ k_kernel.state # LINEARIZED) =>
        /\ k_pc \in {"start", "raised"}
        /\ k_pc = "raised" => k_err = "LoopyError"
        /\ k_ctxs = <<>>
        /\ k_heap = <<>>
        /\ k_log = <<>>
        /\ k_info = <<>>

C17_Witness ==
    /\ k_kernel.state = PREPROCESSED
    /\ k_pc = "raised"
    /\ k_err = "LoopyError"
    /\ k_log = <<>>

(* Line 215: iname is the name of a dimension of the domain.               *)
HasDim(dom, iname) == \E x \in DOMAIN dom.dims : dom.dims[x] = iname

(* The contexts the emission derived by fix.                               *)
Fixes == {x \in DOMAIN k_ctxs : k_ctxs[x].op = "fix"}

(* C18: fix(k, v) on a context whose implemented_domain has no dimension   *)
(* named k gives a domain with exactly one more dimension, named k, after  *)
(* the existing ones; on a context whose domain has the dimension k it     *)
(* adds none; in both cases the constraints are the existing ones and      *)
(* k == v.                                                                 *)
C18_DomainExtension ==
    \A x \in Fixes :
        LET iname == k_ctxs[x].args[1]
            value == k_ctxs[x].args[2]
            old == k_ctxs[k_ctxs[x].parent].ctx.implemented_domain
            new == k_ctxs[x].ctx.implemented_domain
        IN  /\ new.dims = IF HasDim(old, iname) THEN old.dims
                          ELSE Append(old.dims, iname)
            /\ new.cns = old.cns \cup
                            {[iname |-> iname, rel |-> "==", rhs |-> value]}
            /\ Cardinality({d \in DOMAIN new.dims : new.dims[d] = iname}) = 1

C18_Witness ==
    /\ Len(k_ctxs) = 4
    /\ k_ctxs[2].op = "intersect"
    /\ k_ctxs[3].op = "fix" /\ k_ctxs[3].parent = 2
    /\ k_ctxs[3].args = <<"k", 5>>
    /\ k_ctxs[3].ctx.implemented_domain.dims = <<"j", "i", "k">>
    /\ k_ctxs[4].op = "fix" /\ k_ctxs[4].parent = 3
    /\ k_ctxs[4].args = <<"k", 0>>
    /\ k_ctxs[4].ctx.implemented_domain.dims = <<"j", "i", "k">>

(* C19: the context fix(iname, e) returns has the equality iname == e in   *)
(* implemented_domain and binds iname to the same e in var_subst_map.      *)
C19_ConstraintAndBindingAgree ==
    \A x \in Fixes :
        LET iname == k_ctxs[x].args[1]
            ctx == k_ctxs[x].ctx
        IN  /\ iname \in DOMAIN ctx.var_subst_map
            /\ ctx.var_subst_map[iname] = k_ctxs[x].args[2]
            /\ [iname |-> iname, rel |-> "==",
                rhs |-> ctx.var_subst_map[iname]]
                    \in ctx.implemented_domain.cns

C19_Witness ==
    /\ Len(k_ctxs) = 3
    /\ k_ctxs[2].op = "copy_and_assign" /\ k_ctxs[2].args = <<"k", 5>>
    /\ k_ctxs[3].op = "fix" /\ k_ctxs[3].parent = 2
    /\ k_ctxs[3].args = <<"k", 0>>
    /\ k_ctxs[3].ctx.var_subst_map["k"] = 0
    /\ k_pc = "returned"

(* What a reader of the collector set named w sees through object o (a     *)
(* context or the PreambleInfo).                                           *)
Seen(o, w) == k_heap[o[w]]

(* C20: every context of a kernel's emission, however derived, and the     *)
(* PreambleInfo built after the emission hold the references of the three  *)
(* collector sets of the initial context: whatever was added through any   *)
(* of them is seen through all of them.                                    *)
C20_CollectorsShared ==
    /\ \A x \in DOMAIN k_ctxs : \A w \in CollectorFields :
          /\ k_ctxs[x].ctx[w] = k_ctxs[1].ctx[w]
          /\ \A a \in k_added : a[1] = w => a[2] \in Seen(k_ctxs[x].ctx, w)
    /\ k_info # <<>> =>
          /\ k_info[1].codegen_state = k_ctxs[1].ctx
          /\ \A w \in CollectorFields :
                /\ k_info[1][w] = k_ctxs[1].ctx[w]
                /\ \A a \in k_added : a[1] = w => a[2] \in Seen(k_info[1], w)

C20_Witness ==
    /\ k_pc = "returned"
    /\ Len(k_ctxs) = 3
    /\ k_ctxs[2].op = "copy"
    /\ k_ctxs[3].op = "unvectorize" /\ k_ctxs[3].parent = 2
    /\ <<"seen_functions", "pow", 3>> \in k_added
    /\ "pow" \in Seen(k_ctxs[1].ctx, "seen_functions")
    /\ "pow" \in Seen(k_info[1], "seen_functions")
    /\ "float64" \in Seen(k_ctxs[3].ctx, "seen_dtypes")

(* The contexts on the branch that leads to context x, x included.         *)
RECURSIVE Chain(_)
Chain(x) == IF x = 0 THEN {} ELSE {x} \cup Chain(k_ctxs[x].parent)

(* The context of a set of contexts of one branch that was built last.     *)
Nearest(S) == CHOOSE z \in S : \A y \in S : y <= z

(* What the call that derived context x binds, by its arguments.           *)
BindsOf(x) ==
    LET e == k_ctxs[x]
    IN  IF e.op \in {"copy_and_assign", "fix"}
        THEN [n \in {e.args[1]} |-> e.args[2]]
        ELSE IF e.op = "copy_and_assign_many" THEN e.args[1]
        ELSE IF e.op = "unvectorize"
        THEN [n \in {k_ctxs[e.parent].ctx.vectorization_info[1].iname}
                |-> e.args[1]]
        ELSE EmptyMap

(* The restrictions the call that derived context x adds, by its           *)
(* arguments.                                                              *)
RestrictsOf(x) ==
    LET e == k_ctxs[x]
    IN  IF e.op \in {"fix", "unvectorize"}
        THEN {[iname |-> n, rel |-> "==", rhs |-> BindsOf(x)[n]] :
                n \in DOMAIN BindsOf(x)}
        ELSE IF e.op = "intersect" THEN e.args[1].cns
        ELSE {}

(* C21: a derived context never changes: a context once built stays as it  *)
(* is whatever is derived from it; the bindings a context sees are exactly *)
(* those made on its own branch (the nearest one for each name) and its    *)
(* restrictions exactly those added on its own branch, so that nothing of  *)
(* a sibling branch is seen; kernel and target are those of the initial    *)
(* context.                                                                *)
C21_BranchesIsolated ==
    /\ [](\A d \in DOMAIN k_ctxs :
            LET c == k_ctxs[d].ctx
                binders(n) == {z \in Chain(d) : n \in DOMAIN BindsOf(z)}
            IN  /\ c.kernel = k_ctxs[1].ctx.kernel
                /\ c.target = k_ctxs[1].ctx.target
                /\ DOMAIN c.var_subst_map
                      = UNION {DOMAIN BindsOf(z) : z \in Chain(d)}
                /\ \A n \in DOMAIN c.var_subst_map :
                      c.var_subst_map[n] = BindsOf(Nearest(binders(n)))[n]
                /\ c.implemented_domain.cns
                      = UNION {RestrictsOf(z) : z \in Chain(d)})
    /\ [][\A x \in DOMAIN k_ctxs :
            x \in DOMAIN k_ctxs' /\ k_ctxs'[x] = k_ctxs[x]]_vars

C21_Witness ==
    /\ Len(k_ctxs) = 4
    /\ k_ctxs[2].op = "fix" /\ k_ctxs[2].parent = 1
    /\ k_ctxs[2].args = <<"k", 5>>
    /\ k_ctxs[3].op = "intersect" /\ k_ctxs[3].parent = 2
    /\ k_ctxs[3].ctx.var_subst_map["k"] = 5
    /\ k_ctxs[4].op = "copy_and_assign_many" /\ k_ctxs[4].parent = 1
    /\ k_ctxs[4].ctx.var_subst_map["k"] = 1
    /\ k_ctxs[4].ctx.implemented_domain.cns = {}
    /\ k_ctxs[1].ctx.var_subst_map = EmptyMap

(* C22: the ast_builder of a context is the device builder of the target  *)
(* the context holds when is_generating_device_code is true and the host   *)
(* builder of that target otherwise.                                       *)
C22_BuilderOfSelectedTarget ==
    \A x \in DOMAIN k_ctxs :
        LET c == k_ctxs[x].ctx
        IN  ast_builder(c) = IF c.is_generating_device_code
                             THEN get_device_ast_builder(c.target)
                             ELSE get_host_ast_builder(c.target)

(* The distinct texts among preambles.                                     *)
TextsOf(pre) == {pre[i][2] : i \in DOMAIN pre}

(* The texts of the programs of a list.                                    *)
ProgramTexts(prgs) == [i \in DOMAIN prgs |-> str(prgs[i].ast)]

(* C23: all_code() is the preamble texts of the host and device preambles, *)
(* then the device programs in list order, then the host programs;         *)
(* device_code() is the device preamble texts, then the device programs    *)
(* and nothing else; host_code() is the host preamble texts, then the host *)
(* programs and nothing else.                                              *)
C23_RenderingOrder ==
    LET dev == ProgramTexts(r_cgr.device_programs)
        host == ProgramTexts(DictValues(r_cgr.host_programs))
        pre == IF r_pc = "host_code" THEN TextsOf(r_cgr.host_preambles)
               ELSE IF r_pc = "device_code"
               THEN TextsOf(r_cgr.device_preambles)
               ELSE TextsOf(r_cgr.host_preambles)
                        \cup TextsOf(r_cgr.device_preambles)
        np == Cardinality(pre)
        programs == IF r_pc = "host_code" THEN host
                    ELSE IF r_pc = "device_code" THEN dev
                    ELSE dev \o host
    IN  r_pc \in {"host_code", "device_code", "all_code"} =>
            /\ Len(r_out[1]) = np + Len(programs)
            /\ \A i \in 1..np : r_out[1][i] \in pre
            /\ \A i \in DOMAIN programs : r_out[1][np + i] = programs[i]

C23_Witness ==
    /\ r_pc = "all_code"
    /\ Len(r_cgr.device_programs) = 2
    /\ Len(r_cgr.host_programs) = 2
    /\ r_cgr.host_preambles = <<Preamble(1, "y")>>
    /\ r_cgr.device_preambles = <<Preamble(0, "x")>>
    /\ r_out[1] = <<"x", "y">> \o ProgramTexts(r_cgr.device_programs)
                     \o ProgramTexts(DictValues(r_cgr.host_programs))

(* The preambles a rendering method reads.                                 *)
PreamblesRead ==
    IF r_pc = "host_code" THEN r_cgr.host_preambles
    ELSE IF r_pc = "device_code" THEN r_cgr.device_preambles
    ELSE r_cgr.host_preambles \o r_cgr.device_preambles

(* Where a text was discovered first, and with which priority.             *)
FirstAt(pre, text) ==
    CHOOSE i \in DOMAIN pre :
        pre[i][2] = text /\ \A j \in 1..(i - 1) : pre[j][2] # text

PriorityOf(pre, text) == pre[FirstAt(pre, text)][1]

(* C24: in the output of host_code(), device_code() and all_code() each    *)
(* distinct preamble text appears exactly once, however often it was       *)
(* contributed, and the texts are in the order of their priority and, for  *)
(* equal priority, in the order of their discovery.                        *)
C24_PreambleDedup ==
    r_pc \in {"host_code", "device_code", "all_code"} =>
        LET pre == PreamblesRead
            out == r_out[1]
            np == Cardinality(TextsOf(pre))
        IN  /\ \A t \in TextsOf(pre) :
                  Cardinality({i \in DOMAIN out : out[i] = t}) = 1
            /\ \A i, j \in 1..np :
                  i < j =>
                    \/ PriorityOf(pre, out[i]) < PriorityOf(pre, out[j])
                    \/ /\ PriorityOf(pre, out[i]) = PriorityOf(pre, out[j])
                       /\ FirstAt(pre, out[i]) < FirstAt(pre, out[j])

C24_Witness ==
    /\ r_pc = "all_code"
    /\ r_cgr.host_preambles = <<Preamble(1, "y")>>
    /\ r_cgr.device_preambles =
          <<Preamble(1, "x"), Preamble(1, "y"), Preamble(1, "x")>>
    /\ SubSeq(r_out[1], 1, 2) = <<"y", "x">>
    /\ Len(r_out[1]) = 2 + Len(r_cgr.device_programs)
                         + Len(r_cgr.host_programs)

(* C25: generate_code raises LoopyError and returns nothing exactly when   *)
(* the result has more than one device program or more than one host       *)
(* program, and returns the device code otherwise; generate_body raises    *)
(* LoopyError and returns nothing exactly when the number of device        *)
(* programs is not one.                                                    *)
C25_SingleProgramCallers ==
    LET nd == Len(r_cgr.device_programs)
        nh == Len(r_cgr.host_programs)
    IN  /\ r_pc = "generate_code" =>
              IF nd > 1 \/ nh > 1
              THEN r_err = "LoopyError" /\ r_out = <<>>
              ELSE r_err = None /\ r_out = <<device_code(r_cgr), None>>
        /\ r_pc = "generate_body" =>
              IF nd # 1
              THEN r_err = "LoopyError" /\ r_out = <<>>
              ELSE r_err = None /\ Len(r_out) = 1

C25_Witness ==
    /\ r_pc = "generate_code"
    /\ Len(r_cgr.device_programs) = 1
    /\ Len(r_cgr.host_programs) = 2
    /\ r_err = "LoopyError"
    /\ r_out = <<>>

(* C26 as claimed: one try_vectorized call on a context vectorizing a loop *)
(* of length L invokes the emit function at most L times.                  *)
C26_AtMostLengthCalls ==
    (entry = "try_vectorized" /\ cgs.vectorization_info # <<>>) =>
        Len(calls) <= cgs.vectorization_info[1].length

(* C26, amended: one try_vectorized call on a context vectorizing a loop   *)
(* of length L invokes the emit function at most L + 1 times: once with    *)
(* the vectorizing context and, only after that call raised, at most once  *)
(* per lane.                                                               *)
C26_AtMostLengthPlusOne ==
    (entry = "try_vectorized" /\ cgs.vectorization_info # <<>>) =>
        /\ Len(calls) <= cgs.vectorization_info[1].length + 1
        /\ calls[1] = cgs
        /\ Len(calls) > 1 => outcomes[1].kind = "raise"
        /\ \A k \in 2..Len(calls) : calls[k].vectorization_info = <<>>

C26_Witness ==
    /\ entry = "try_vectorized" /\ v_pc = "returned"
    /\ cgs.vectorization_info # <<>>
    /\ cgs.vectorization_info[1].length = MaxLength
    /\ Len(calls) = MaxLength + 1

(* C27: a TemporaryVariable that was constructed with read_only = True has *)
(* an initializer; none that was constructed has an initializer while      *)
(* being read-write, has both base_storage and an initializer, or has      *)
(* _base_storage_access_may_be_aliasing without base_storage.              *)
C27_TemporaryInvariants ==
    t_obj # <<>> =>
        LET tv == t_obj[1]
        IN  /\ tv.read_only => tv.initializer # NoInitializer
            /\ ~(tv.initializer # NoInitializer /\ ~tv.read_only)
            /\ ~(tv.base_storage # None /\ tv.initializer # NoInitializer)
            /\ ~(tv._base_storage_access_may_be_aliasing
                 /\ tv.base_storage = None)

(* The least state among the kernels of a unit.                            *)
LeastState(u) ==
    LET S == {DictGet(u.callables_table, k).subkernel.state :
                k \in KernelIds(u.callables_table)}
    IN  CHOOSE st \in S : \A other \in S : st <= other

(* How often a stage ran in a pipeline.                                    *)
Ran(P, name) ==
    Cardinality({i \in DOMAIN P.stages : P.stages[i].stage = name})

(* The unit a run works on once a bare kernel was normalized.              *)
Normalized(u) == IF u.bare THEN make_program(u) ELSE u

(* C28: on a cache miss preprocessing runs, once, exactly when the unit's  *)
(* state is below PREPROCESSED, and linearization runs, once, exactly when *)
(* the state after preprocessing and type inference is below LINEARIZED; a *)
(* linearized unit is neither preprocessed nor linearized.                 *)
C28_StagesGuardedByState ==
    \A r \in Runs :
        work[r] # <<>> =>
            LET P == work[r][1]
                u0 == Normalized(input_t_unit[r][1])
                s0 == LeastState(u0)
                s1 == IF s0 < PREPROCESSED THEN PREPROCESSED ELSE s0
                reached == P.error \notin {"preprocess_program",
                                            "infer_unknown_types"}
            IN  /\ Ran(P, "preprocess_program")
                      = IF s0 < PREPROCESSED THEN 1 ELSE 0
                /\ reached => Ran(P, "linearize")
                                 = IF s1 < LINEARIZED THEN 1 ELSE 0
                /\ ~reached => Ran(P, "linearize") = 0
                /\ s0 = LINEARIZED =>
                      /\ Ran(P, "preprocess_program") = 0
                      /\ Ran(P, "linearize") = 0

C28_Witness ==
    /\ input_t_unit[1] = <<UnitBare>>
    /\ pc[1] = "done" /\ work[1] # <<>>
    /\ Ran(work[1][1], "make_program") = 1
    /\ Ran(work[1][1], "preprocess_program") = 0
    /\ Ran(work[1][1], "linearize") = 1

(* The position of a stage in generate_code_v2.                            *)
StageRank(ev) ==
    CASE ev.stage = "make_program"                      -> 1
      [] ev.stage = "preprocess_program"                -> 2
      [] ev.stage = "infer_unknown_types"               -> 3
      [] ev.stage = "linearize"                         -> 4
      [] ev.stage = "diverge_callee_entrypoints"        -> 5
      [] ev.stage = "pre_codegen_checks"                -> 6
      [] ev.stage = "generate_code_for_a_single_kernel" -> 7
      [] ev.stage = "generate_preambles"                -> 8
      [] ev.stage = "splice"                            -> 9

DriverCallAt(P) ==
    {i \in DOMAIN P.stages :
        P.stages[i].stage = "generate_code_for_a_single_kernel"}

(* A pipeline that went through every stage, every driver call included.   *)
RanToTheEnd(P) ==
    /\ P.error = None
    /\ Len(P.stages) >= 2
    /\ P.stages[Len(P.stages)].stage = "splice"
    /\ P.stages[Len(P.stages) - 1].stage = "generate_preambles"
    /\ {P.stages[i].id : i \in DriverCallAt(P)}
          = KernelIds(P.t_unit.callables_table)

(* C29: on a cache miss the stages happen in the order normalization,      *)
(* preprocessing, type inference, linearization, divergence, pre-codegen   *)
(* checks, driver calls, collection of the callables' preambles, splicing; *)
(* no driver call comes before divergence and the checks, and the store    *)
(* happens only after every stage and every driver call.                   *)
C29_FixedStageOrder ==
    \A r \in Runs :
        work[r] # <<>> =>
            LET P  == work[r][1]
                st == P.stages
            IN  /\ \A i, j \in DOMAIN st :
                      i < j =>
                        \/ StageRank(st[i]) < StageRank(st[j])
                        \/ /\ StageRank(st[i]) = 7
                           /\ StageRank(st[j]) = 7
                /\ \A i \in DriverCallAt(P) :
                      \E a, b \in 1..(i - 1) :
                        /\ a < b
                        /\ st[a].stage = "diverge_callee_entrypoints"
                        /\ st[b].stage = "pre_codegen_checks"
                /\ (pc[r] = "store" \/ wrote[r]) => RanToTheEnd(P)

C29_Witness ==
    /\ pc[1] = "done" /\ wrote[1] /\ work[1] # <<>>
    /\ Ran(work[1][1], "preprocess_program") = 1
    /\ Ran(work[1][1], "linearize") = 1
    /\ Cardinality(DriverCallAt(work[1][1])) >= 2
    /\ RanToTheEnd(work[1][1])

(* C30: the assembled result is a function of the unit's content only: two *)
(* runs that computed the result of units with the same callables, in      *)
(* whatever order the callables table iterates, hold the same host         *)
(* programs, device programs and device_preambles list and render the same *)
(* code.                                                                   *)
C30_ResultIndependentOfTableOrder ==
    \A r1, r2 \in Runs :
        (/\ pc[r1] = "done" /\ work[r1] # <<>>
         /\ pc[r2] = "done" /\ work[r2] # <<>>
         /\ Key(input_t_unit[r1][1]) = Key(input_t_unit[r2][1]))
        => /\ result[r1][1] = result[r2][1]
           /\ all_code(result[r1][1]) = all_code(result[r2][1])

(* C31: whatever the interleaving, a run that completed with caching       *)
(* enabled returned the value the cache holds for its unit, also when it   *)
(* missed the cache, computed its own result and lost the store race.      *)
C31_ReturnedIsCached ==
    \A r \in Runs :
        (CACHING_ENABLED /\ pc[r] = "done")
        => /\ Key(input_t_unit[r][1]) \in DOMAIN code_gen_cache
           /\ result[r][1] = code_gen_cache[Key(input_t_unit[r][1])]

(* An iname is pinned in a context: fixed by an equality of the           *)
(* implemented_domain and bound in the substitution map.                   *)
Pinned(c, iname) ==
    /\ iname \in DOMAIN c.var_subst_map
    /\ \E cn \in c.implemented_domain.cns :
          cn.iname = iname /\ cn.rel = "=="

(* C32: in no context derived from a kernel's initial context is           *)
(* vectorization_info set for an iname that is pinned to a value.          *)
C32_NoVectorizedPinnedIname ==
    \A x \in DOMAIN k_ctxs :
        LET c == k_ctxs[x].ctx
        IN  c.vectorization_info # <<>>
            => ~Pinned(c, c.vectorization_info[1].iname)

(* The points of a domain: the assignments of its dimensions, over a small *)
(* range of values, that satisfy its constraints.                          *)
PointValues == {0, 1, 5}

NamesOf(dom) == {dom.dims[x] : x \in DOMAIN dom.dims}

PointsOf(dom) ==
    {pt \in [NamesOf(dom) -> PointValues] :
        \A cn \in dom.cns : cn.rel = "==" => pt[cn.iname] = cn.rhs}

Restrict(pt, names) == [n \in names |-> pt[n]]

(* C33: intersect(s) gives a context whose implemented_domain is the       *)
(* intersection of the receiver's domain with s, the dimensions aligned by *)
(* name, and whose other fields are the receiver's; the domain of every    *)
(* derived context is contained in the domain of the context it was        *)
(* derived from.                                                           *)
C33_IntersectRestricts ==
    \A x \in DOMAIN k_ctxs :
        x > 1 =>
            LET c   == k_ctxs[x].ctx
                par == k_ctxs[k_ctxs[x].parent].ctx
                new == c.implemented_domain
                old == par.implemented_domain
            IN  /\ NamesOf(old) \subseteq NamesOf(new)
                /\ \A pt \in PointsOf(new) :
                      Restrict(pt, NamesOf(old)) \in PointsOf(old)
                /\ k_ctxs[x].op = "intersect" =>
                      LET other == k_ctxs[x].args[1]
                      IN  /\ NamesOf(new) = NamesOf(old) \cup NamesOf(other)
                          /\ PointsOf(new) =
                               {pt \in [NamesOf(new) -> PointValues] :
                                  /\ Restrict(pt, NamesOf(old))
                                        \in PointsOf(old)
                                  /\ Restrict(pt, NamesOf(other))
                                        \in PointsOf(other)}
                          /\ \A f \in DOMAIN c \ {"implemented_domain"} :
                                c[f] = par[f]

C33_Witness ==
    /\ Len(k_ctxs) = 3
    /\ k_ctxs[2].op = "fix" /\ k_ctxs[2].args = <<"k", 5>>
    /\ k_ctxs[3].op = "intersect" /\ k_ctxs[3].parent = 2
    /\ NamesOf(k_ctxs[3].ctx.implemented_domain) = {"i", "j", "k"}
    /\ Cardinality(PointsOf(k_ctxs[2].ctx.implemented_domain)) = 1
    /\ Cardinality(PointsOf(k_ctxs[3].ctx.implemented_domain)) = 3
    /\ k_ctxs[3].ctx.var_subst_map = k_ctxs[2].ctx.var_subst_map

(* The position of the first call of a name in the driver's log, 0 if it  *)
(* was not called.                                                         *)
FirstCall(name) ==
    IF \E x \in DOMAIN k_log : k_log[x] = name
    THEN CHOOSE x \in DOMAIN k_log :
            k_log[x] = name /\ \A y \in 1..(x - 1) : k_log[y] # name
    ELSE 0

(* C34: the preamble generators, those of the kernel first and those of    *)
(* the backend after them, are called only after the emission and the      *)
(* check of the implemented domains have completed, and the seen_dtypes of *)
(* the PreambleInfo each of them gets holds the dtype of every argument    *)
(* and every temporary, and the index dtype if the kernel has an iname.    *)
C34_GeneratorsAfterEmission ==
    /\ k_pc \in {"start", "checked", "constructed", "emit", "raised"}
          => k_gens = <<>> /\ FirstCall("prea_gen") = 0
    /\ k_gens # <<>> =>
          /\ 0 < FirstCall("generate_host_or_device_program")
          /\ FirstCall("generate_host_or_device_program")
                < FirstCall("check_implemented_domains")
          /\ FirstCall("check_implemented_domains") < FirstCall("prea_gen")
          /\ k_err = None
          /\ Len(k_gens) = k_kernel.preamble_generators + 1
          /\ \A g \in DOMAIN k_gens :
                /\ (k_gens[g].from.kind = "kernel")
                      = (g <= k_kernel.preamble_generators)
                /\ k_kernel.args \subseteq k_gens[g].seen_dtypes
                /\ k_kernel.temporary_variables \subseteq k_gens[g].seen_dtypes
                /\ k_kernel.all_inames # {}
                      => k_kernel.index_dtype \in k_gens[g].seen_dtypes

C34_Witness ==
    /\ k_pc = "returned"
    /\ Len(k_gens) = 3
    /\ k_kernel.args = {"complex128"}
    /\ k_kernel.temporary_variables = {"int32"}
    /\ k_kernel.all_inames = {"i"}
    /\ k_gens[1].seen_dtypes = {"complex128", "int32", "int64"}
    /\ k_gens[3].from.kind = "device"

(* The contexts the emission derived by unvectorize.                       *)
LaneContexts == {x \in DOMAIN k_ctxs : k_ctxs[x].op = "unvectorize"}

(* C35: the collector sets only grow: whatever was added to a set during   *)
(* the kernel's emission, through any context or by the driver, is in the  *)
(* set from then on; what was added through a vectorized context is still  *)
(* there, and read through the contexts of the lanes, after the fallback   *)
(* to unvectorize.                                                         *)
C35_CollectorsOnlyGrow ==
    /\ \A a \in k_added :
          a[2] \in k_heap[k_ctxs[1].ctx[a[1]]]
    /\ \A x \in LaneContexts :
          \A a \in k_added :
              a[3] = k_ctxs[x].parent
                 => a[2] \in k_heap[k_ctxs[x].ctx[a[1]]]

C35_Witness ==
    /\ k_pc = "returned"
    /\ Len(k_ctxs) = 3
    /\ k_ctxs[2].ctx.vectorization_info # <<>>
    /\ 3 \in LaneContexts /\ k_ctxs[3].parent = 2
    /\ <<"seen_functions", "pow", 2>> \in k_added
    /\ <<"seen_dtypes", "float64", 0>> \in k_added
    /\ k_heap[k_ctxs[3].ctx.seen_functions] = {"pow"}
    /\ "float64" \in k_heap[k_ctxs[3].ctx.seen_dtypes]

(* C36: when the first call of the emit function does not raise,           *)
(* try_vectorized made that one call only, with the receiver, returned     *)
(* what it returned, issued no warning and unrolled nothing, on a scalar   *)
(* and on a vectorizing context alike; when it raised on a vectorizing     *)
(* context, one warning with the label and the reason was issued before    *)
(* the first lane call.                                                    *)
C36_DirectCallOrOneWarning ==
    entry = "try_vectorized" =>
        /\ calls[1] = cgs
        /\ outcomes[1].kind # "raise" =>
              /\ v_pc = "returned"
              /\ Len(calls) = 1
              /\ warnings = <<>>
              /\ lane = 0 /\ vec_result = <<>>
              /\ v_ret[1] =
                    CASE outcomes[1].kind = "none" -> <<>>
                      [] outcomes[1].kind = "single"
                            -> [part |-> 1, subst |-> cgs.var_subst_map,
                                vec |-> cgs.vectorization_info]
                      [] outcomes[1].kind = "list"
                            -> [x \in 1..outcomes[1].n |->
                                  [part |-> x, subst |-> cgs.var_subst_map,
                                   vec |-> cgs.vectorization_info]]
        /\ (outcomes[1].kind = "raise" /\ cgs.vectorization_info # <<>>) =>
              /\ Len(warnings) = 1
              /\ warnings[1] = [id |-> "vectorize_failed", what |-> v_what,
                                reason |-> outcomes[1]]

C36_Witness ==
    /\ entry = "try_vectorized" /\ v_pc = "returned"
    /\ cgs.vectorization_info # <<>>
    /\ outcomes = <<Outcome("list", 2)>>
    /\ Len(v_ret[1]) = 2

(* C37: the initial context of the driver has an empty substitution map,   *)
(* empty collector sets, no implemented predicates, no vectorization_info, *)
(* is_generating_device_code false, schedule_index_end the length of the   *)
(* kernel's linearization, an implemented_domain made of the kernel's      *)
(* assumptions only, and allow_complex true exactly when the dtype of some *)
(* argument or temporary is complex.                                       *)
C37_InitialContext ==
    k_ctxs # <<>> =>
        LET c == k_ctxs[1].ctx
        IN  /\ c.var_subst_map = EmptyMap
            /\ c.implemented_predicates = {}
            /\ c.vectorization_info = <<>>
            /\ c.is_generating_device_code = FALSE
            /\ c.schedule_index_end = Len(k_kernel.linearization)
            /\ c.implemented_domain.dims = <<>>
            /\ c.implemented_domain.cns = k_kernel.assumptions
            /\ c.allow_complex =
                  (\E dtype \in k_kernel.args
                                  \cup k_kernel.temporary_variables :
                      dtype \in {"complex64", "complex128"})
            /\ k_pc = "constructed" =>
                  \A w \in {"seen_dtypes", "seen_functions",
                            "seen_atomic_dtypes"} : k_heap[c[w]] = {}

C37_Witness ==
    /\ k_pc = "constructed"
    /\ k_kernel.args = {"float64"}
    /\ k_kernel.temporary_variables = {"complex64"}
    /\ k_kernel.assumptions # {}
    /\ k_ctxs[1].ctx.allow_complex
    /\ k_ctxs[1].ctx.schedule_index_end = 2
    /\ k_ctxs[1].ctx.implemented_domain.cns = k_kernel.assumptions

(* C38: with caching disabled no step of generate_code_v2 changes the      *)
(* cache, every call runs the pipeline and returns the pipeline's own      *)
(* result, also when the cache holds an entry under the key, and no call   *)
(* ends with the KeyError of a miss, also in strict mode.                  *)
C38_DisabledCacheUntouched ==
    [][~CACHING_ENABLED =>
          /\ code_gen_cache' = code_gen_cache
          /\ \A r \in Runs :
                /\ Started(r)
                   => /\ work'[r] # <<>>
                      /\ error'[r] # "KeyError"
                      /\ pc'[r] \in {"store", "failed"}
                /\ (pc[r] = "store" /\ pc'[r] = "done")
                   => /\ result'[r] = <<PipelineResult(work[r][1])>>
                      /\ ~wrote'[r]]_vars

C38_Witness ==
    \E r \in Runs :
        /\ ~CACHING_ENABLED /\ ABORT_ON_CACHE_MISS
        /\ pc[r] = "done" /\ work[r] # <<>>
        /\ Key(input_t_unit[r][1]) \in DOMAIN code_gen_cache
        /\ code_gen_cache[Key(input_t_unit[r][1])] # result[r][1]

(* C39: within one call of the driver one target is used throughout, the   *)
(* one the driver was called with and the context holds: the builder the   *)
(* context resolves, the builder whose preamble generators are called, and *)
(* the prefix and the suffix of the program name all belong to it, also    *)
(* when kernel.target is another target.                                   *)
C39_SingleTarget ==
    k_ctxs # <<>> =>
        LET c == k_ctxs[1].ctx
        IN  /\ ast_builder(c).target = c.target
            /\ c.gen_program_name[1].target = c.target
            /\ c.gen_program_name[3].target = c.target
            /\ \A g \in DOMAIN k_gens :
                  k_gens[g].from.kind = "device"
                  => k_gens[g].from.target = c.target

(***************************************************************************)
(* Properties of parse_tag and the string form of the iname tags.          *)
(***************************************************************************)
(* The strings the code of parse_tag tests for, by their shape.            *)
HasKnownShape(chars) ==
    \/ chars \in {TagStr(FieldlessTag(cls)) :
                     cls \in StringFormClasses
                             \ {"GroupInameTag", "LocalInameTag"}}
    \/ chars \in {<<"f", "o", "r">>, <<"i", "l", "p">>,
                  TagStr(UnrollHintTag(<<>>))}
    \/ \E prefix \in {<<"g", ".">>, <<"l", ".">>,
                      TagStr(UnrollHintTag(<<>>)) \o <<".">>} :
          startswith(chars, prefix)

(* C40: parse_tag(str(t)) succeeds and equals t for every tag t of a class *)
(* that defines a string form; parse_tag returns a Tag argument unchanged, *)
(* maps None and "for" to None, and raises ValueError for a string of no   *)
(* known shape and for an argument that is neither a str, a Tag nor None.  *)
C40_ParseTagRoundTrip ==
    /\ (p_pc = "roundtrip" /\ p_arg.tag[1].cls \in StringFormClasses)
       => p_out = Returns(p_arg.tag[1])
    /\ p_pc = "parsed"
       => /\ p_arg.type = "Tag" => p_out = Returns(p_arg.tag[1])
          /\ (p_arg.type = "NoneType" \/ p_arg = StrArg(<<"f", "o", "r">>))
             => p_out = ReturnsNone
          /\ (p_arg.type = "str" /\ ~HasKnownShape(p_arg.chars))
             => p_out = Raises("ValueError")
          /\ p_arg.type = "int" => p_out = Raises("ValueError")

=============================================================================
